---- MODULE Spec2Model ----
(***************************************************************************)
(* Model of the ToDoDemo backend: password and token utilities, the user   *)
(* data-access service, the auth service, the authentication and           *)
(* validation middleware, the controllers and the /api routes.             *)
(*                                                                         *)
(* Each client process runs one call at a time.  A call is either a direct *)
(* service call or an HTTP request that passes the synchronous middleware  *)
(* chain and then the controller.  Every await on the storage layer is a   *)
(* separate step, so calls of different processes interleave between their *)
(* storage accesses exactly as promises do on the event loop.              *)
(***************************************************************************)
EXTENDS Integers, Sequences, FiniteSets, TLC

\* ------------------------------------------------------------------ bounds
MaxUsers == 2          \* ids the storage layer can hand out
MaxTime  == 1          \* clock ticks
MaxRequests == 3       \* HTTP requests of the client
MaxCalls    == 3       \* service calls of the client of the services
MaxRacerCalls == 2     \* calls of each of the two concurrent clients

\* ------------------------------------------------------- program constants
\* DEFAULT_EXPIRES_IN = '24h', in clock ticks
DEFAULT_EXPIRES_IN == 1

Procs == {1, 2}

\* --------------------------------------------------------------- messages
MsgSecret       == "JWT_SECRET environment variable is required"
MsgEmptyToken   == "Token must be a non-empty string"
MsgBadPayload   == "Invalid token payload"
MsgExpired      == "Token expired"
MsgInvalid      == "Invalid token"
MsgGenPayload   == "Payload must contain userId and email"
MsgEmptyPw      == "Password must be a non-empty string"
MsgEmptyHash    == "Hashed password must be a non-empty string"
MsgUnexpected   == "Unexpected error"
MsgInvalidCreds == "Invalid email or password"
MsgDb           == "Database connection failed"

\* ----------------------------------------------------------------- inputs
Emails     == {"a@x", "A@x", "b@x"}
Names      == {"n1", "n2"}
Passwords  == {"", "P1", "P2"}
Secrets    == {"", "s1"}
\* process.env.NODE_ENV: unset means development
NodeEnvs   == {"development", "production"}

\* String.prototype.toLowerCase on the e-mail alphabet
toLowerCase(e) == IF e = "A@x" THEN "a@x" ELSE e

\* ------------------------------------------------------ password utility
\* bcrypt.hash: the digest is an opaque value that determines which plain
\* text it accepts; it is never equal to a plain password.
BcryptHash(pw) == [alg |-> "bcrypt", of |-> pw]

\* a stored value that is not a bcrypt digest
MalformedHash == [alg |-> "none", of |-> "junk"]
EmptyHash     == [alg |-> "none", of |-> ""]

\* bcrypt.compare: false for a malformed digest, never throws on strings
BcryptCompare(pw, h) == h.alg = "bcrypt" /\ h.of = pw

Ok(v)    == [ok |-> TRUE,  isError |-> FALSE, message |-> "", value |-> v]
Err(m)   == [ok |-> FALSE, isError |-> TRUE,  message |-> m,  value |-> [userId |-> 0, email |-> ""]]
\* a thrown value that is not an instance of Error
NonErr   == [ok |-> FALSE, isError |-> FALSE, message |-> "String error", value |-> [userId |-> 0, email |-> ""]]

hashPasswordBad(pw) == [ok |-> TRUE, thrown |-> "", hash |-> [alg |-> "plain", of |-> pw]]

hashPassword(pw) ==
  IF pw = "" THEN [ok |-> FALSE, thrown |-> MsgEmptyPw, hash |-> EmptyHash]
  ELSE [ok |-> TRUE, thrown |-> "", hash |-> BcryptHash(pw)]

\* raising for a digest that bcrypt cannot read
verifyPasswordStrict(pw, h) ==
  IF pw = "" THEN [ok |-> FALSE, thrown |-> MsgEmptyPw, match |-> FALSE]
  ELSE IF h.alg # "bcrypt" THEN [ok |-> FALSE, thrown |-> MsgEmptyHash, match |-> FALSE]
  ELSE [ok |-> TRUE, thrown |-> "", match |-> BcryptCompare(pw, h)]

verifyPassword(pw, h) ==
  IF pw = "" THEN [ok |-> FALSE, thrown |-> MsgEmptyPw, match |-> FALSE]
  ELSE IF h = EmptyHash THEN [ok |-> FALSE, thrown |-> MsgEmptyHash, match |-> FALSE]
  ELSE [ok |-> TRUE, thrown |-> "", match |-> BcryptCompare(pw, h)]

\* ---------------------------------------------------------- token utility
\* A token is what jwt.sign produced: the payload, the expiry and the secret
\* it was signed with.  form "jwt" is a well-formed token, "garbage" a string
\* that is no JWT, "empty" the empty string.
Token(uid, em, exp, sig, form) ==
  [userId |-> uid, email |-> em, exp |-> exp, sig |-> sig, form |-> form]

EmptyToken   == Token(0, "", 0, "", "empty")
GarbageToken == Token(0, "", 0, "", "garbage")
NoPayload    == [userId |-> 0, email |-> ""]

\* outcomes of the jsonwebtoken library that its callers distinguish
JwtFaults == {"none", "otherError", "nonError"}

\* jwt.verify(token, secret): signature first, then expiry
JwtVerify(token, secret, now, fault) ==
  IF fault = "otherError" THEN [r |-> "Error", payload |-> NoPayload]
  ELSE IF fault = "nonError" THEN [r |-> "NonError", payload |-> NoPayload]
  ELSE IF token.form # "jwt" THEN [r |-> "JsonWebTokenError", payload |-> NoPayload]
  ELSE IF token.sig # secret THEN [r |-> "JsonWebTokenError", payload |-> NoPayload]
  ELSE IF now >= token.exp THEN [r |-> "TokenExpiredError", payload |-> NoPayload]
  ELSE [r |-> "ok", payload |-> [userId |-> token.userId, email |-> token.email]]

\* signing { userId } only
generateTokenNoEmail(payload, secret, now) ==
  IF secret = "" THEN [ok |-> FALSE, thrown |-> MsgSecret, token |-> EmptyToken]
  ELSE IF payload.userId = 0 \/ payload.email = ""
    THEN [ok |-> FALSE, thrown |-> MsgGenPayload, token |-> EmptyToken]
  ELSE [ok |-> TRUE, thrown |-> "",
        token |-> Token(payload.userId, "", now + DEFAULT_EXPIRES_IN, secret, "jwt")]

generateToken(payload, secret, now) ==
  IF secret = "" THEN [ok |-> FALSE, thrown |-> MsgSecret, token |-> EmptyToken]
  ELSE IF payload.userId = 0 \/ payload.email = ""
    THEN [ok |-> FALSE, thrown |-> MsgGenPayload, token |-> EmptyToken]
  ELSE [ok |-> TRUE, thrown |-> "",
        token |-> Token(payload.userId, payload.email, now + DEFAULT_EXPIRES_IN, secret, "jwt")]

\* testing the token before the secret
verifyTokenTokenFirst(token, secret, now, fault) ==
  IF token.form = "empty" THEN Err(MsgEmptyToken)
  ELSE IF secret = "" THEN Err(MsgSecret)
  ELSE LET d == JwtVerify(token, secret, now, fault) IN
    CASE d.r = "ok" ->
           IF d.payload.userId = 0 \/ d.payload.email = ""
             THEN Err(MsgBadPayload)
             ELSE Ok(d.payload)
      [] d.r = "TokenExpiredError" -> Err(MsgExpired)
      [] d.r = "JsonWebTokenError" -> Err(MsgInvalid)
      [] d.r = "Error"             -> Err(MsgUnexpected)
      [] OTHER                     -> NonErr

\* TokenExpiredError extends JsonWebTokenError: testing the base class first
verifyTokenBaseFirst(token, secret, now, fault) ==
  IF secret = "" THEN Err(MsgSecret)
  ELSE IF token.form = "empty" THEN Err(MsgEmptyToken)
  ELSE LET d == JwtVerify(token, secret, now, fault) IN
    CASE d.r = "ok" ->
           IF d.payload.userId = 0 \/ d.payload.email = ""
             THEN Err(MsgBadPayload)
             ELSE Ok(d.payload)
      [] d.r \in {"JsonWebTokenError", "TokenExpiredError"} -> Err(MsgInvalid)
      [] d.r = "Error"             -> Err(MsgUnexpected)
      [] OTHER                     -> NonErr

verifyToken(token, secret, now, fault) ==
  IF secret = "" THEN Err(MsgSecret)
  ELSE IF token.form = "empty" THEN Err(MsgEmptyToken)
  ELSE LET d == JwtVerify(token, secret, now, fault) IN
    CASE d.r = "ok" ->
           IF d.payload.userId = 0 \/ d.payload.email = ""
             THEN Err(MsgBadPayload)
             ELSE Ok(d.payload)
      [] d.r = "TokenExpiredError" -> Err(MsgExpired)
      [] d.r = "JsonWebTokenError" -> Err(MsgInvalid)
      [] d.r = "Error"             -> Err(MsgUnexpected)
      [] OTHER                     -> NonErr

\* answering true for every Error that verifyToken throws
isTokenExpiredAnyError(token, secret, now, fault) ==
  LET v == verifyToken(token, secret, now, fault) IN
    ~v.ok /\ v.isError

isTokenExpired(token, secret, now, fault) ==
  LET v == verifyToken(token, secret, now, fault) IN
    ~v.ok /\ v.isError /\ v.message = MsgExpired

\* ------------------------------------------------- authentication middleware
\* The Authorization header is a string: a sequence of characters, where a
\* whole word ("Bearer", "Basic") or a whole token counts as one character.
Ch(c)      == [c |-> c, t |-> EmptyToken]
TokCh(t)   == [c |-> "tok", t |-> t]
NoHeader   == [present |-> FALSE, chars |-> <<>>]
Header(cs) == [present |-> TRUE, chars |-> cs]

\* String.prototype.split(' ')
RECURSIVE split(_)
split(s) ==
  IF \A i \in 1..Len(s) : s[i].c # " " THEN <<s>>
  ELSE LET i == CHOOSE k \in 1..Len(s) :
                  s[k].c = " " /\ \A j \in 1..(k-1) : s[j].c # " "
       IN <<SubSeq(s, 1, i-1)>> \o split(SubSeq(s, i+1, Len(s)))

\* the token a header part denotes: one token character, or some other
\* non-empty string, which is no JWT
TokenOfPart(part) ==
  IF Len(part) = 1 /\ part[1].c = "tok" THEN part[1].t ELSE GarbageToken

AuthOut(nxt, user, status, code, message, verified) ==
  [message |-> message, user |-> user, status |-> status, code |-> code,
   verified |-> verified, next |-> nxt]

\* error.message.includes('JWT_SECRET') on the messages that can be thrown
includesJWT_SECRET(m) == m \in {MsgSecret}

\* a catch block that answers only for instances of Error
AuthCatchErrorsOnly(e) ==
  IF e.isError THEN
    IF e.message = MsgExpired THEN AuthOut(FALSE, NoPayload, 401, "TOKEN_EXPIRED", e.message, 1)
    ELSE IF e.message = MsgInvalid THEN AuthOut(FALSE, NoPayload, 401, "INVALID_TOKEN", e.message, 1)
    ELSE IF includesJWT_SECRET(e.message) THEN AuthOut(FALSE, NoPayload, 500, "SERVER_ERROR", e.message, 1)
    ELSE AuthOut(FALSE, NoPayload, 401, "INVALID_TOKEN", e.message, 1)
  ELSE AuthOut(FALSE, NoPayload, 0, "", "", 1)

AuthCatchNoExpired(e) ==
  IF e.isError THEN
    IF e.message = MsgInvalid THEN AuthOut(FALSE, NoPayload, 401, "INVALID_TOKEN", e.message, 1)
    ELSE IF includesJWT_SECRET(e.message) THEN AuthOut(FALSE, NoPayload, 500, "SERVER_ERROR", e.message, 1)
    ELSE AuthOut(FALSE, NoPayload, 401, "INVALID_TOKEN", e.message, 1)
  ELSE AuthOut(FALSE, NoPayload, 500, "SERVER_ERROR", "Internal server error during authentication", 1)

\* the catch block of authenticateToken
AuthCatch(e) ==
  IF e.isError THEN
    IF e.message = MsgExpired THEN AuthOut(FALSE, NoPayload, 401, "TOKEN_EXPIRED", e.message, 1)
    ELSE IF e.message = MsgInvalid THEN AuthOut(FALSE, NoPayload, 401, "INVALID_TOKEN", e.message, 1)
    ELSE IF includesJWT_SECRET(e.message) THEN AuthOut(FALSE, NoPayload, 500, "SERVER_ERROR", e.message, 1)
    ELSE AuthOut(FALSE, NoPayload, 401, "INVALID_TOKEN", e.message, 1)
  ELSE AuthOut(FALSE, NoPayload, 500, "SERVER_ERROR", "Internal server error during authentication", 1)

\* the format check without the test of parts.length
authenticateTokenNoLength(h, secret, now, fault) ==
  IF ~h.present \/ h.chars = <<>> THEN
    AuthOut(FALSE, NoPayload, 401, "MISSING_TOKEN", "Authorization header is required", 0)
  ELSE LET parts == split(h.chars) IN
    IF parts[1] # <<Ch("Bearer")>> THEN
      AuthOut(FALSE, NoPayload, 401, "INVALID_TOKEN_FORMAT",
              "Authorization header must be in format: Bearer <token>", 0)
    ELSE IF Len(parts) < 2 \/ parts[2] = <<>> THEN
      AuthOut(FALSE, NoPayload, 401, "MISSING_TOKEN", "Token is required", 0)
    ELSE LET v == verifyToken(TokenOfPart(parts[2]), secret, now, fault) IN
      IF v.ok THEN AuthOut(TRUE, v.value, 0, "", "", 1)
      ELSE AuthCatch(v)

authenticateToken(h, secret, now, fault) ==
  IF ~h.present \/ h.chars = <<>> THEN
    AuthOut(FALSE, NoPayload, 401, "MISSING_TOKEN", "Authorization header is required", 0)
  ELSE LET parts == split(h.chars) IN
    IF Len(parts) # 2 \/ parts[1] # <<Ch("Bearer")>> THEN
      AuthOut(FALSE, NoPayload, 401, "INVALID_TOKEN_FORMAT",
              "Authorization header must be in format: Bearer <token>", 0)
    ELSE IF parts[2] = <<>> THEN
      AuthOut(FALSE, NoPayload, 401, "MISSING_TOKEN", "Token is required", 0)
    ELSE LET v == verifyToken(TokenOfPart(parts[2]), secret, now, fault) IN
      IF v.ok THEN AuthOut(TRUE, v.value, 0, "", "", 1)
      ELSE AuthCatch(v)

\* going on unauthenticated whenever authentication fails
optionalAuthLenient(h, secret, now, fault) ==
  LET a == authenticateToken(h, secret, now, fault) IN
    IF a.next THEN a ELSE AuthOut(TRUE, NoPayload, 0, "", "", 0)

\* if (!authHeader) next(); else authenticateToken(req, res, next)
optionalAuth(h, secret, now, fault) ==
  IF ~h.present \/ h.chars = <<>> THEN AuthOut(TRUE, NoPayload, 0, "", "", 0)
  ELSE authenticateToken(h, secret, now, fault)

\* ------------------------------------------------------ validation schemas
Absent == "undefined"
Truthy(x) == x \notin {"", Absent}

\* z.string().trim().toLowerCase().email(): "bad" is no e-mail address
zEmail(raw) ==
  IF raw \in Emails THEN [ok |-> TRUE, val |-> toLowerCase(raw)]
  ELSE [ok |-> FALSE, val |-> raw]
\* passwordRegex: "P1" and "P2" satisfy it, "weak" and "" do not
zPassword(raw) == [ok |-> raw \in {"P1", "P2"}, val |-> raw]
\* z.string().trim().min(2).max(50)
zName(raw) == [ok |-> raw \in Names, val |-> raw]

Data(n, e, pw) == [email |-> e, name |-> n, password |-> pw]
NoData == Data(Absent, Absent, Absent)

ParseOut(ok, data, detail) == [ok |-> ok, data |-> data, detail |-> detail]

userRegistrationSchema(b) ==
  IF zName(b.name).ok /\ zEmail(b.email).ok /\ zPassword(b.password).ok
  THEN ParseOut(TRUE, Data(b.name, zEmail(b.email).val, b.password), "")
  ELSE ParseOut(FALSE, NoData, "invalid field")

\* the login schema only requires a non-empty password
userLoginSchema(b) ==
  IF zEmail(b.email).ok /\ Truthy(b.password)
  THEN ParseOut(TRUE, Data(Absent, zEmail(b.email).val, b.password), "")
  ELSE ParseOut(FALSE, NoData, "invalid field")

\* the update schema without its refinement
userUpdateSchemaNoRefine(b) ==
  IF /\ (b.name = Absent \/ zName(b.name).ok)
     /\ (b.email = Absent \/ zEmail(b.email).ok)
     /\ (b.password = Absent \/ zPassword(b.password).ok)
  THEN ParseOut(TRUE,
                Data(b.name,
                     IF b.email = Absent THEN Absent ELSE zEmail(b.email).val,
                     b.password), "")
  ELSE ParseOut(FALSE, NoData, "invalid field")

userUpdateSchema(b) ==
  IF /\ (b.name = Absent \/ zName(b.name).ok)
     /\ (b.email = Absent \/ zEmail(b.email).ok)
     /\ (b.password = Absent \/ zPassword(b.password).ok)
  THEN IF b.name = Absent /\ b.email = Absent /\ b.password = Absent
       THEN ParseOut(FALSE, NoData, "At least one field must be provided for update")
       ELSE ParseOut(TRUE,
                     Data(b.name,
                          IF b.email = Absent THEN Absent ELSE zEmail(b.email).val,
                          b.password), "")
  ELSE ParseOut(FALSE, NoData, "invalid field")

\* z.string().trim().min(1): id 0 stands for a blank id
userIdSchema(id) == id # 0

\* ------------------------------------------------------------ user records
User(id, n, e, h) == [email |-> e, name |-> n, password |-> h, id |-> id]
NoUser == User(0, "", "", EmptyHash)

\* const { password, ...userWithoutPassword } = user  (user.controller)
excludePasswordBad(u) == u
excludePassword(u) == [k \in DOMAIN u \ {"password"} |-> u[k]]
excludePasswordFromUsers(us) == {excludePassword(u) : u \in us}

\* the same destructuring, inline in AuthService.register and login
withoutPassword(u) == [k \in DOMAIN u \ {"password"} |-> u[k]]

\* ------------------------------------------------- service results (errors)
\* detail: the e-mail or id a domain error names, or the message of the
\* original error a service error wraps
Res(kind, message, detail, user, users, token, payload) ==
  [message |-> message, token |-> token, payload |-> payload, user |-> user,
   detail |-> detail, kind |-> kind, users |-> users]
NoResult      == Res("none", "", "", NoUser, {}, EmptyToken, NoPayload)
Thrown(k, m, c) == Res(k, m, c, NoUser, {}, EmptyToken, NoPayload)
UserNotFoundError(id)     == Thrown("UserNotFound", "User not found", id)
UserAlreadyExistsError(e) == Thrown("UserAlreadyExists", "User with email already exists", e)
UserServiceError(m, c)    == Thrown("UserServiceError", m, c)
InvalidCredentialsError   == Thrown("InvalidCredentials", MsgInvalidCreds, "")
AuthServiceError(m, c)    == Thrown("AuthServiceError", m, c)
\* a value thrown by a service that is none of the domain errors
OtherThrown               == Thrown("Other", MsgUnexpected, "")

\* ------------------------------------------------------------- controllers
Resp(status, success, code, message, hasData, users, token) ==
  [message |-> message, token |-> token, status |-> status, code |-> code,
   detail |-> "", users |-> users, success |-> success,
   keys |-> IF success
              THEN {"success", "timestamp"} \cup (IF hasData THEN {"data"} ELSE {})
                   \cup (IF message # "" THEN {"message"} ELSE {})
              ELSE {"success", "error", "timestamp", "path"}]
NoResp == [message |-> "", token |-> EmptyToken, status |-> 0, code |-> "",
           detail |-> "", users |-> {}, success |-> FALSE, keys |-> {}]

\* an error body without the request path
ErrorRespNoPath(status, code, message) ==
  [Resp(status, FALSE, code, message, FALSE, {}, EmptyToken) EXCEPT !.keys = @ \ {"path"}]

ErrorResp(status, code, message) == Resp(status, FALSE, code, message, FALSE, {}, EmptyToken)
ServerError == ErrorResp(500, "SERVER_ERROR", "Internal server error")

Routes == {"POST /auth/register", "POST /auth/login", "GET /users", "GET /users/:id",
           "POST /users", "PUT /users/:id", "DELETE /users/:id"}
UserRoutes == Routes \ {"POST /auth/register", "POST /auth/login"}

AuthController_register(r) ==
  CASE r.kind = "ok" -> Resp(201, TRUE, "", "User registered successfully", TRUE, {r.user}, r.token)
    [] r.kind = "UserAlreadyExists" -> ErrorResp(409, "USER_ALREADY_EXISTS", r.message)
    [] r.kind = "AuthServiceError"  -> ErrorResp(500, "AUTH_SERVICE_ERROR", r.message)
    [] OTHER -> ServerError

AuthController_login(r) ==
  CASE r.kind = "ok" -> Resp(200, TRUE, "", "Login successful", TRUE, {r.user}, r.token)
    [] r.kind = "InvalidCredentials" -> ErrorResp(401, "INVALID_CREDENTIALS", r.message)
    [] r.kind = "AuthServiceError"   -> ErrorResp(500, "AUTH_SERVICE_ERROR", r.message)
    [] OTHER -> ServerError

UserController_getAllUsers(r) ==
  CASE r.kind = "ok" -> Resp(200, TRUE, "", "", TRUE, excludePasswordFromUsers(r.users), EmptyToken)
    [] r.kind = "UserServiceError" -> ErrorResp(500, "USER_SERVICE_ERROR", r.message)
    [] OTHER -> ServerError

UserController_getUserById(r) ==
  CASE r.kind = "ok" ->
         IF r.user = NoUser THEN ErrorResp(404, "USER_NOT_FOUND", "User with ID not found")
         ELSE Resp(200, TRUE, "", "", TRUE, {excludePassword(r.user)}, EmptyToken)
    [] r.kind = "UserServiceError" -> ErrorResp(500, "USER_SERVICE_ERROR", r.message)
    [] OTHER -> ServerError

UserController_createUser(r) ==
  CASE r.kind = "ok" -> Resp(201, TRUE, "", "User created successfully", TRUE,
                             {excludePassword(r.user)}, EmptyToken)
    [] r.kind = "UserAlreadyExists" -> ErrorResp(409, "USER_ALREADY_EXISTS", r.message)
    [] r.kind = "UserServiceError"  -> ErrorResp(500, "USER_SERVICE_ERROR", r.message)
    [] OTHER -> ServerError

\* updateUser without its branch for UserAlreadyExistsError
UserController_updateUserNoConflict(r) ==
  CASE r.kind = "ok" -> Resp(200, TRUE, "", "User updated successfully", TRUE,
                             {excludePassword(r.user)}, EmptyToken)
    [] r.kind = "UserNotFound"      -> ErrorResp(404, "USER_NOT_FOUND", r.message)
    [] r.kind = "UserServiceError"  -> ErrorResp(500, "USER_SERVICE_ERROR", r.message)
    [] OTHER -> ServerError

UserController_updateUser(r) ==
  CASE r.kind = "ok" -> Resp(200, TRUE, "", "User updated successfully", TRUE,
                             {excludePassword(r.user)}, EmptyToken)
    [] r.kind = "UserNotFound"      -> ErrorResp(404, "USER_NOT_FOUND", r.message)
    [] r.kind = "UserAlreadyExists" -> ErrorResp(409, "USER_ALREADY_EXISTS", r.message)
    [] r.kind = "UserServiceError"  -> ErrorResp(500, "USER_SERVICE_ERROR", r.message)
    [] OTHER -> ServerError

UserController_deleteUser(r) ==
  CASE r.kind = "ok" -> Resp(200, TRUE, "", "User deleted successfully", FALSE, {}, EmptyToken)
    [] r.kind = "UserNotFound"     -> ErrorResp(404, "USER_NOT_FOUND", r.message)
    [] r.kind = "UserServiceError" -> ErrorResp(500, "USER_SERVICE_ERROR", r.message)
    [] OTHER -> ServerError

\* the handler each route binds
Controller(route, r) ==
  CASE route = "POST /auth/register" -> AuthController_register(r)
    [] route = "POST /auth/login"    -> AuthController_login(r)
    [] route = "GET /users"          -> UserController_getAllUsers(r)
    [] route = "GET /users/:id"      -> UserController_getUserById(r)
    [] route = "POST /users"         -> UserController_createUser(r)
    [] route = "PUT /users/:id"      -> UserController_updateUser(r)
    [] OTHER                         -> UserController_deleteUser(r)

\* ===================================================================== state
VARIABLES
  users,    \* the User table: a set of user records
  nextId,   \* the next id the storage layer generates
  now,      \* the clock
  secret,   \* process.env.JWT_SECRET
  nodeEnv,  \* process.env.NODE_ENV
  issued,   \* every token generateToken has returned
  ops,      \* per process: calls started so far
  proc,     \* per client process: the call in flight, its position, its outcome
  mw        \* per slot: one middleware invocation on one request (unit level)

vars == <<users, nextId, now, secret, nodeEnv, issued, ops, proc, mw>>

Idle ==
  [data |-> NoData, id |-> 0, route |-> "none", pc |-> "idle", op |-> "none",
   tok |-> EmptyToken, hdr |-> NoHeader,
   auth |-> AuthOut(FALSE, NoPayload, 0, "", "", 0),
   ran |-> <<>>, existing |-> NoUser, result |-> NoResult, resp |-> NoResp,
   calls |-> {}, faulted |-> FALSE, overlap |-> FALSE, free |-> FALSE]

MwIdle == [fault |-> "none", kind |-> "none", hdr |-> NoHeader, stage |-> "idle",
           out |-> AuthOut(FALSE, NoPayload, 0, "", "", 0)]

FirstPc(op) ==
  CASE op \in {"createUser", "register"} -> "cu_find"
    [] op = "login"         -> "lg"
    [] op = "validateToken" -> "vt"
    [] op = "updateUser"    -> "up_find"
    [] op = "deleteUser"    -> "del"
    [] op = "findById"      -> "byid"
    [] OTHER                -> "all"

\* calls that reach the storage layer
StoreCalls == {"findByEmail", "findById", "findAll", "create", "update", "delete"}

Slots == {1, 2}

\* the running application: config/environment refuses to start without
\* JWT_SECRET, the table is empty, no request has arrived
Init ==
  /\ users = {}
  /\ nextId = 1
  /\ now = 0
  /\ secret = "s1"
  /\ nodeEnv \in NodeEnvs
  /\ issued = {}
  /\ ops = [p \in Procs |-> 0]
  /\ proc = [p \in Procs |-> Idle]
  /\ mw = [k \in Slots |-> MwIdle]

\* the services and utilities on their own: JWT_SECRET may be unset
InitSvc ==
  /\ users = {}
  /\ nextId = 1
  /\ now = 0
  /\ secret \in Secrets
  /\ nodeEnv = "development"
  /\ issued = {}
  /\ ops = [p \in Procs |-> 0]
  /\ proc = [p \in Procs |-> Idle]
  /\ mw = [k \in Slots |-> MwIdle]

\* prisma.user.findUnique({ where: { email } }) / ({ where: { id } })
FindUniqueEmail(e) == IF \E u \in users : u.email = e
                      THEN CHOOSE u \in users : u.email = e ELSE NoUser
FindUniqueId(id)   == IF \E u \in users : u.id = id
                      THEN CHOOSE u \in users : u.id = id ELSE NoUser

\* the call of process p ends with result r; an HTTP call sends its response
Finish(pr, r, calls, faulted) ==
  [pr EXCEPT !.pc = "done", !.result = r, !.calls = calls,
             !.faulted = pr.faulted \/ faulted,
             !.resp = IF pr.route = "none" THEN NoResp ELSE Controller(pr.route, r)]

\* creates still in flight: each may take one id
Creating == {q \in Procs : proc[q].pc \in {"cu_find", "cu_create"}}

InFlight(q) == proc[q].pc \notin {"idle", "done"}

CreateOps == {"createUser", "register"}

\* Process p starts the call described by rec.  For a createUser or register
\* call, overlap records that it ran while a createUser or register call of
\* the other process was in flight, and free that no stored e-mail matched
\* its e-mail when it started.
Begin(p, rec, limit) ==
  /\ proc[p].pc = "idle"
  /\ ops[p] < limit
  /\ rec.op \in CreateOps => nextId + Cardinality(Creating) <= MaxUsers
  /\ ops' = [ops EXCEPT ![p] = @ + 1]
  /\ proc' = [q \in Procs |->
       IF q = p THEN
         IF rec.op \in CreateOps /\ rec.pc # "done" THEN
           [rec EXCEPT !.overlap = \E r \in Procs \ {p} : r \in Creating,
                       !.free = ~\E u \in users : toLowerCase(u.email) = toLowerCase(rec.data.email)]
         ELSE rec
       ELSE IF q \in Creating /\ rec.op \in CreateOps /\ rec.pc # "done"
         THEN [proc[q] EXCEPT !.overlap = TRUE]
       ELSE proc[q]]
  /\ UNCHANGED <<users, nextId, now, secret, nodeEnv, issued, mw>>

\* a service method called directly
Direct(op, data, id, tok) ==
  [Idle EXCEPT !.pc = FirstPc(op), !.op = op, !.data = data, !.id = id, !.tok = tok]

\* ------------------------------------------------------ direct service calls
\* process p calls a service method, if it has made fewer than limit calls
CallCreateUser(p, limit) ==
  \E e \in Emails, pw \in {"", "P1"} :
    Begin(p, Direct("createUser", Data("n1", e, pw), 0, EmptyToken), limit)

CallRegister(p, limit) ==
  \E e \in Emails :
    Begin(p, Direct("register", Data("n1", e, "P1"), 0, EmptyToken), limit)

CallLogin(p, limit) ==
  \E e \in Emails, pw \in Passwords :
    Begin(p, Direct("login", Data(Absent, e, pw), 0, EmptyToken), limit)

CallValidateToken(p, limit) ==
  \E t \in issued \cup {EmptyToken, GarbageToken} :
    Begin(p, Direct("validateToken", NoData, 0, t), limit)

CallUpdateUser(p, limit) ==
  \E id \in 1..MaxUsers, n \in {Absent, "n2"}, e \in {Absent, "a@x", "A@x"},
     pw \in {Absent, "P2"} :
    Begin(p, Direct("updateUser", Data(n, e, pw), id, EmptyToken), limit)

CallDeleteUser(p, limit) ==
  \E id \in 1..MaxUsers :
    Begin(p, Direct("deleteUser", NoData, id, EmptyToken), limit)

\* --------------------------------------------------- UserService.createUser
\* the catch block of AuthService.register
\* wrapping every failure of register, the domain error included
RegisterCatchWrapAll(r) == AuthServiceError("Registration failed", r.message)

RegisterCatch(r) ==
  IF r.kind = "UserAlreadyExists" THEN r
  ELSE AuthServiceError("Registration failed", r.message)

\* the catch block of UserService.createUser, for an error with Prisma code
\* `code` (or "" when the error carries none) and message msg
createUserCatchBad(code, msg, email) == UserServiceError("Failed to create user", msg)

createUserCatch(code, msg, email) ==
  IF code = "P2002" THEN UserAlreadyExistsError(email)
  ELSE UserServiceError("Failed to create user", msg)

\* what the caller of createUser makes of a failure of createUser
CreateThrow(pr, r) == IF pr.op = "register" THEN RegisterCatch(r) ELSE r

\* returning the user without a token when token issuance fails
RegisterIssueNoToken(u) ==
  LET g == generateToken([userId |-> u.id, email |-> u.email], secret, now) IN
    Res("ok", "", "", withoutPassword(u), {}, IF g.ok THEN g.token ELSE EmptyToken, NoPayload)

\* the tail of AuthService.register after createUser returned user u
RegisterIssue(u) ==
  LET g == generateToken([userId |-> u.id, email |-> u.email], secret, now) IN
    IF g.ok THEN Res("ok", "", "", withoutPassword(u), {}, g.token, NoPayload)
    ELSE RegisterCatch(Thrown("Error", g.thrown, ""))

\* await this.findByEmail(data.email), then await PasswordUtil.hashPassword
CreateFindByEmail(p) ==
  LET pr == proc[p]
      c1 == pr.calls \cup {"findByEmail"}
      c2 == c1 \cup {"hashPassword"}
      h  == hashPassword(pr.data.password)
  IN
  /\ pr.pc = "cu_find"
  /\ \E dbFails \in BOOLEAN :
       proc' = [proc EXCEPT ![p] =
         IF dbFails THEN
           Finish(pr, CreateThrow(pr, createUserCatch("", MsgDb, pr.data.email)), c1, TRUE)
         ELSE IF FindUniqueEmail(toLowerCase(pr.data.email)) # NoUser THEN
           Finish(pr, CreateThrow(pr, UserAlreadyExistsError(pr.data.email)), c1, FALSE)
         ELSE IF ~h.ok THEN
           Finish(pr, CreateThrow(pr, createUserCatch("", h.thrown, pr.data.email)), c2, FALSE)
         ELSE [pr EXCEPT !.pc = "cu_create", !.calls = c2]]
  /\ UNCHANGED <<users, nextId, now, secret, nodeEnv, issued, ops, mw>>

\* await prisma.user.create(...), with the unique constraint on email
CreateInsert(p) ==
  LET pr == proc[p]
      c1 == pr.calls \cup {"create"}
      u  == User(nextId, pr.data.name, pr.data.email, hashPassword(pr.data.password).hash)
      r  == IF pr.op = "register" THEN RegisterIssue(u)
            ELSE Res("ok", "", "", u, {}, EmptyToken, NoPayload)
  IN
  /\ pr.pc = "cu_create"
  /\ \E dbFails \in BOOLEAN :
       IF dbFails THEN
         /\ proc' = [proc EXCEPT ![p] =
              Finish(pr, CreateThrow(pr, createUserCatch("", MsgDb, pr.data.email)), c1, TRUE)]
         /\ UNCHANGED <<users, nextId, issued>>
       ELSE IF \E v \in users : v.email = pr.data.email THEN     \* P2002
         /\ proc' = [proc EXCEPT ![p] =
              Finish(pr, CreateThrow(pr, createUserCatch("P2002", "Unique constraint failed", pr.data.email)),
                     c1, FALSE)]
         /\ UNCHANGED <<users, nextId, issued>>
       ELSE
         /\ users' = users \cup {u}
         /\ nextId' = nextId + 1
         /\ issued' = IF r.kind = "ok" /\ pr.op = "register" THEN issued \cup {r.token} ELSE issued
         /\ proc' = [proc EXCEPT ![p] =
              Finish(pr, r, IF pr.op = "register" THEN c1 \cup {"generateToken"} ELSE c1, FALSE)]
  /\ UNCHANGED <<now, secret, nodeEnv, ops, mw>>

\* ------------------------------------------------------- AuthService.login
\* answering every failure of login as invalid credentials
LoginCatchAllInvalid(r) == InvalidCredentialsError

LoginCatchWrapAll(r) == AuthServiceError("Login failed", r.message)

\* the catch block of AuthService.login
LoginCatch(r) ==
  IF r.kind = "InvalidCredentials" THEN r
  ELSE AuthServiceError("Login failed", r.message)

Login(p) ==
  LET pr == proc[p]
      c1 == pr.calls \cup {"findByEmail"}
      c2 == c1 \cup {"verifyPassword"}
      c3 == c2 \cup {"generateToken"}
      u  == FindUniqueEmail(toLowerCase(pr.data.email))
      v  == verifyPassword(pr.data.password, u.password)
      g  == generateToken([userId |-> u.id, email |-> u.email], secret, now)
  IN
  /\ pr.pc = "lg"
  /\ \E dbFails \in BOOLEAN :
       IF dbFails THEN
         /\ proc' = [proc EXCEPT ![p] =
              Finish(pr, LoginCatch(UserServiceError("Failed to find user by email", MsgDb)), c1, TRUE)]
         /\ UNCHANGED issued
       ELSE IF u = NoUser THEN
         /\ proc' = [proc EXCEPT ![p] = Finish(pr, LoginCatch(InvalidCredentialsError), c1, FALSE)]
         /\ UNCHANGED issued
       ELSE IF ~v.ok THEN
         /\ proc' = [proc EXCEPT ![p] = Finish(pr, LoginCatch(Thrown("Error", v.thrown, "")), c2, FALSE)]
         /\ UNCHANGED issued
       ELSE IF ~v.match THEN
         /\ proc' = [proc EXCEPT ![p] = Finish(pr, LoginCatch(InvalidCredentialsError), c2, FALSE)]
         /\ UNCHANGED issued
       ELSE IF ~g.ok THEN
         /\ proc' = [proc EXCEPT ![p] = Finish(pr, LoginCatch(Thrown("Error", g.thrown, "")), c3, FALSE)]
         /\ UNCHANGED issued
       ELSE
         /\ proc' = [proc EXCEPT ![p] =
              Finish(pr, Res("ok", "", "", withoutPassword(u), {}, g.token, NoPayload), c3, FALSE)]
         /\ issued' = issued \cup {g.token}
  /\ UNCHANGED <<users, nextId, now, secret, nodeEnv, ops, mw>>

\* ----------------------------------------------- AuthService.validateToken
ValidateCatchWrapAll(r) == AuthServiceError("Token validation failed", r.message)

\* the catch block of AuthService.validateToken
ValidateCatch(r) ==
  IF r.kind = "AuthServiceError" THEN r
  ELSE AuthServiceError("Token validation failed", r.message)

ValidateToken(p) ==
  LET pr == proc[p]
      c1 == pr.calls \cup {"verifyToken"}
      c2 == c1 \cup {"findById"}
  IN
  /\ pr.pc = "vt"
  /\ \E fault \in JwtFaults, dbFails \in BOOLEAN :
       LET v == verifyToken(pr.tok, secret, now, fault) IN
       proc' = [proc EXCEPT ![p] =
         IF ~v.ok THEN
           Finish(pr, ValidateCatch(Thrown("Error", v.message, "")), c1, fault # "none")
         ELSE IF dbFails THEN
           Finish(pr, ValidateCatch(UserServiceError("Failed to find user by ID", MsgDb)), c2, TRUE)
         ELSE IF FindUniqueId(v.value.userId) = NoUser THEN
           Finish(pr, ValidateCatch(AuthServiceError("User no longer exists", "")), c2, FALSE)
         ELSE Finish(pr, Res("ok", "", "", NoUser, {}, EmptyToken, v.value), c2, FALSE)]
  /\ UNCHANGED <<users, nextId, now, secret, nodeEnv, issued, ops, mw>>

\* --------------------------------------------------- UserService.updateUser
\* looking up every supplied e-mail, the target's own included
EmailSupplied(d, u) == Truthy(d.email)

\* data.email && data.email !== existingUser.email
EmailChanges(d, u) == Truthy(d.email) /\ d.email # u.email

\* replacing the name whether or not one was supplied
ApplyUpdateName(u, d) ==
  User(u.id,
       d.name,
       IF Truthy(d.email) THEN d.email ELSE u.email,
       IF Truthy(d.password) THEN hashPassword(d.password).hash ELSE u.password)

\* await this.findById(id)
UpdateFindById(p) ==
  LET pr == proc[p]
      c1 == pr.calls \cup {"findById"}
      u  == FindUniqueId(pr.id)
      c2 == IF Truthy(pr.data.password) THEN c1 \cup {"hashPassword"} ELSE c1
  IN
  /\ pr.pc = "up_find"
  /\ \E dbFails \in BOOLEAN :
       proc' = [proc EXCEPT ![p] =
         IF dbFails THEN
           Finish(pr, UserServiceError("Failed to update user", MsgDb), c1, TRUE)
         ELSE IF u = NoUser THEN Finish(pr, UserNotFoundError("id"), c1, FALSE)
         ELSE IF EmailChanges(pr.data, u) THEN
           [pr EXCEPT !.pc = "up_email", !.existing = u, !.calls = c1]
         ELSE [pr EXCEPT !.pc = "up_update", !.existing = u, !.calls = c2]]
  /\ UNCHANGED <<users, nextId, now, secret, nodeEnv, issued, ops, mw>>

\* await this.findByEmail(data.email), when the email is being changed
UpdateFindByEmail(p) ==
  LET pr == proc[p]
      c1 == pr.calls \cup {"findByEmail"}
      c2 == IF Truthy(pr.data.password) THEN c1 \cup {"hashPassword"} ELSE c1
  IN
  /\ pr.pc = "up_email"
  /\ \E dbFails \in BOOLEAN :
       proc' = [proc EXCEPT ![p] =
         IF dbFails THEN
           Finish(pr, UserServiceError("Failed to update user", MsgDb), c1, TRUE)
         ELSE IF FindUniqueEmail(toLowerCase(pr.data.email)) # NoUser THEN
           Finish(pr, UserAlreadyExistsError(pr.data.email), c1, FALSE)
         ELSE [pr EXCEPT !.pc = "up_update", !.calls = c2]]
  /\ UNCHANGED <<users, nextId, now, secret, nodeEnv, issued, ops, mw>>

\* updateData: only the supplied fields, the password re-hashed
ApplyUpdate(u, d) ==
  User(u.id,
       IF Truthy(d.name) THEN d.name ELSE u.name,
       IF Truthy(d.email) THEN d.email ELSE u.email,
       IF Truthy(d.password) THEN hashPassword(d.password).hash ELSE u.password)

\* wrapping the record-not-found error of the storage layer like any other
updateUserCatchNoRemap(code, msg, email) ==
  IF code = "P2002" THEN UserAlreadyExistsError(IF Truthy(email) THEN email ELSE "unknown")
  ELSE UserServiceError("Failed to update user", msg)

\* the catch block of UserService.updateUser, for an error with Prisma code
\* `code` (or "" when the error carries none) and message msg
updateUserCatch(code, msg, email) ==
  IF code = "P2002" THEN UserAlreadyExistsError(IF Truthy(email) THEN email ELSE "unknown")
  ELSE IF code = "P2025" THEN UserNotFoundError("id")
  ELSE UserServiceError("Failed to update user", msg)

\* await prisma.user.update({ where: { id }, data: updateData })
UpdateWrite(p) ==
  LET pr == proc[p]
      c1 == pr.calls \cup {"update"}
      u  == FindUniqueId(pr.id)
      n  == ApplyUpdate(u, pr.data)
  IN
  /\ pr.pc = "up_update"
  /\ \E dbFails \in BOOLEAN :
       IF dbFails THEN
         /\ proc' = [proc EXCEPT ![p] =
              Finish(pr, updateUserCatch("", MsgDb, pr.data.email), c1, TRUE)]
         /\ UNCHANGED users
       ELSE IF u = NoUser THEN      \* P2025
         /\ proc' = [proc EXCEPT ![p] =
              Finish(pr, updateUserCatch("P2025", "Record to update not found", pr.data.email),
                     c1, FALSE)]
         /\ UNCHANGED users
       ELSE IF \E v \in users : v.id # u.id /\ v.email = n.email THEN   \* P2002
         /\ proc' = [proc EXCEPT ![p] =
              Finish(pr, updateUserCatch("P2002", "Unique constraint failed", pr.data.email),
                     c1, FALSE)]
         /\ UNCHANGED users
       ELSE
         /\ users' = (users \ {u}) \cup {n}
         /\ proc' = [proc EXCEPT ![p] =
              Finish(pr, Res("ok", "", "", n, {}, EmptyToken, NoPayload), c1, FALSE)]
  /\ UNCHANGED <<nextId, now, secret, nodeEnv, issued, ops, mw>>

\* --------------------------------------------------- UserService.deleteUser
\* wrapping the record-not-found error of the storage layer like any other
deleteUserCatchNoRemap(code, msg) == UserServiceError("Failed to delete user", msg)

\* the catch block of UserService.deleteUser, for an error with Prisma code
\* `code` (or "" when the error carries none) and message msg
deleteUserCatch(code, msg) ==
  IF code = "P2025" THEN UserNotFoundError("id")
  ELSE UserServiceError("Failed to delete user", msg)

\* await prisma.user.delete({ where: { id } })
DeleteUser(p) ==
  LET pr == proc[p]
      c1 == pr.calls \cup {"delete"}
      u  == FindUniqueId(pr.id)
  IN
  /\ pr.pc = "del"
  /\ \E dbFails \in BOOLEAN :
       IF dbFails THEN
         /\ proc' = [proc EXCEPT ![p] =
              Finish(pr, deleteUserCatch("", MsgDb), c1, TRUE)]
         /\ UNCHANGED users
       ELSE IF u = NoUser THEN      \* P2025
         /\ proc' = [proc EXCEPT ![p] =
              Finish(pr, deleteUserCatch("P2025", "Record to delete does not exist"), c1, FALSE)]
         /\ UNCHANGED users
       ELSE
         /\ users' = users \ {u}
         /\ proc' = [proc EXCEPT ![p] = Finish(pr, Res("ok", "", "", NoUser, {}, EmptyToken, NoPayload), c1, FALSE)]
  /\ UNCHANGED <<nextId, now, secret, nodeEnv, issued, ops, mw>>

\* ------------------------------------------ UserService.findById / findAll
FindById(p) ==
  LET pr == proc[p]
      c1 == pr.calls \cup {"findById"}
  IN
  /\ pr.pc = "byid"
  /\ \E dbFails \in BOOLEAN :
       proc' = [proc EXCEPT ![p] =
         IF dbFails THEN Finish(pr, UserServiceError("Failed to find user by ID", MsgDb), c1, TRUE)
         ELSE Finish(pr, Res("ok", "", "", FindUniqueId(pr.id), {}, EmptyToken, NoPayload), c1, FALSE)]
  /\ UNCHANGED <<users, nextId, now, secret, nodeEnv, issued, ops, mw>>

FindAll(p) ==
  LET pr == proc[p]
      c1 == pr.calls \cup {"findAll"}
  IN
  /\ pr.pc = "all"
  /\ \E dbFails \in BOOLEAN :
       proc' = [proc EXCEPT ![p] =
         IF dbFails THEN Finish(pr, UserServiceError("Failed to retrieve users", MsgDb), c1, TRUE)
         ELSE Finish(pr, Res("ok", "", "", NoUser, users, EmptyToken, NoPayload), c1, FALSE)]
  /\ UNCHANGED <<users, nextId, now, secret, nodeEnv, issued, ops, mw>>

\* ------------------------------------------------------------------ routes
\* the middleware each route registers before its handler, in order
ChainBad(route) ==
  CASE route = "GET /users"        -> <<"auth">>
    [] route = "GET /users/:id"    -> <<"params", "auth">>
    [] route = "POST /users"       -> <<"body", "auth">>
    [] route = "PUT /users/:id"    -> <<"params", "body", "auth">>
    [] route = "DELETE /users/:id" -> <<"params", "auth">>
    [] OTHER                       -> <<"body">>

Chain(route) ==
  CASE route = "GET /users"        -> <<"auth">>
    [] route = "GET /users/:id"    -> <<"auth", "params">>
    [] route = "POST /users"       -> <<"auth", "body">>
    [] route = "PUT /users/:id"    -> <<"auth", "params", "body">>
    [] route = "DELETE /users/:id" -> <<"auth", "params">>
    [] OTHER                       -> <<"body">>

\* the schema validateBody is given on each route
BodySchema(route, b) ==
  CASE route \in {"POST /auth/register", "POST /users"} -> userRegistrationSchema(b)
    [] route = "POST /auth/login" -> userLoginSchema(b)
    [] OTHER -> userUpdateSchema(b)

\* the service method the handler of each route awaits
ServiceOf(route) ==
  CASE route = "POST /auth/register" -> "register"
    [] route = "POST /auth/login"    -> "login"
    [] route = "GET /users"          -> "findAll"
    [] route = "GET /users/:id"      -> "findById"
    [] route = "POST /users"         -> "createUser"
    [] route = "PUT /users/:id"      -> "updateUser"
    [] OTHER                         -> "deleteUser"

ValidationError(detail) ==
  [ErrorResp(400, "VALIDATION_ERROR", "Request validation failed") EXCEPT !.detail = detail]

\* ------------------------------------------------------------ errorHandler
\* an error handed to next(): its message, name and, for an AppError, its
\* statusCode and code
AppError(message, statusCode, code) ==
  [message |-> message, status |-> statusCode, code |-> code, name |-> "AppError"]
NamedError(name, message) ==
  [message |-> message, status |-> 0, code |-> "", name |-> name]

\* error.message.includes(...) on the messages that are handed over
includesDuplicate(m) == m \in {"duplicate key value violates unique constraint"}
includesNotFound(m)  == m \in {"User not found"}

errorHandler(error, env) ==
  IF error.name = "AppError" THEN ErrorResp(error.status, error.code, error.message)
  ELSE IF error.name = "ZodError" THEN ValidationError(error.message)
  ELSE IF error.name = "JsonWebTokenError"
    THEN ErrorResp(401, "INVALID_TOKEN", "Invalid authentication token")
  ELSE IF error.name = "TokenExpiredError"
    THEN ErrorResp(401, "TOKEN_EXPIRED", "Authentication token has expired")
  ELSE IF error.name = "CastError"
    THEN ErrorResp(400, "INVALID_ID", "Invalid resource identifier")
  ELSE IF includesDuplicate(error.message)
    THEN ErrorResp(409, "DUPLICATE_RESOURCE", "Resource already exists")
  ELSE IF includesNotFound(error.message)
    THEN ErrorResp(404, "NOT_FOUND", "Resource not found")
  ELSE ErrorResp(500, "SERVER_ERROR",
                 IF env = "production" THEN "Internal server error" ELSE error.message)

\* one middleware of the chain acts on the request rec
Middleware(m, rec) ==
  CASE m = "auth" ->
         LET a == authenticateToken(rec.hdr, secret, now, "none") IN
           [rec EXCEPT !.auth = a, !.ran = Append(@, m),
                       !.calls = IF a.verified = 1 THEN @ \cup {"verifyToken"} ELSE @,
                       !.pc = IF a.next THEN @ ELSE "done",
                       !.resp = IF a.next THEN @ ELSE ErrorResp(a.status, a.code, a.message)]
    [] m = "params" ->
         [rec EXCEPT !.ran = Append(@, m),
                     !.pc = IF userIdSchema(rec.id) THEN @ ELSE "done",
                     !.resp = IF userIdSchema(rec.id) THEN @ ELSE ValidationError("User ID is required")]
    [] OTHER ->
         LET v == BodySchema(rec.route, rec.data) IN
           [rec EXCEPT !.ran = Append(@, m),
                       !.data = IF v.ok THEN v.data ELSE @,
                       !.pc = IF v.ok THEN @ ELSE "done",
                       !.resp = IF v.ok THEN @ ELSE ValidationError(v.detail)]

\* express runs the chain until a middleware responds instead of calling next
RECURSIVE RunChain(_, _)
RunChain(chain, rec) ==
  IF rec.pc = "done" THEN rec
  ELSE IF chain = <<>> THEN [rec EXCEPT !.ran = Append(@, "handler")]
  ELSE RunChain(Tail(chain), Middleware(Head(chain), rec))

\* request inputs
HttpEmails    == {"A@x", "b@x", "bad"}
HttpPasswords == {"P1", "weak"}
HttpHeaders   ==
  {NoHeader, Header(<<Ch("Basic"), Ch(" "), TokCh(GarbageToken)>>)}
  \cup {Header(<<Ch("Bearer"), Ch(" "), TokCh(t)>>) : t \in issued \cup {GarbageToken}}
HttpBodies(route) ==
  CASE route \in {"POST /auth/register", "POST /users"} ->
         {Data("n1", e, pw) : e \in HttpEmails, pw \in HttpPasswords}
    [] route = "POST /auth/login" ->
         {Data(Absent, e, pw) : e \in {"A@x", "b@x"}, pw \in {"P1", "P2"}}
    [] route = "PUT /users/:id" ->
         {Data(n, e, pw) : n \in {Absent, "n2"}, e \in {Absent, "A@x", "bad"},
                           pw \in {Absent, "P2"}}
    [] OTHER -> {NoData}
HttpIds(route) ==
  IF route \in {"GET /users/:id", "PUT /users/:id", "DELETE /users/:id"}
  THEN 0..MaxUsers ELSE {0}
HttpHeadersOf(route) == IF route \in UserRoutes THEN HttpHeaders ELSE {NoHeader}

\* an HTTP request enters its route: the synchronous middleware chain runs,
\* then the handler calls its service method
HttpRequest(p) ==
  \E route \in Routes :
    \E hdr \in HttpHeadersOf(route), b \in HttpBodies(route), id \in HttpIds(route) :
      Begin(p, RunChain(Chain(route),
                        [Idle EXCEPT !.pc = FirstPc(ServiceOf(route)), !.op = ServiceOf(route),
                                     !.route = route, !.hdr = hdr, !.data = b, !.id = id]),
            MaxRequests)

\* ------------------------------------------------------------ environment
\* the caller takes the outcome; the process is free for its next call
Return(p) ==
  /\ proc[p].pc = "done"
  /\ proc' = [proc EXCEPT ![p] = Idle]
  /\ UNCHANGED <<users, nextId, now, secret, nodeEnv, issued, ops, mw>>

Tick ==
  /\ now < MaxTime
  /\ now' = now + 1
  /\ UNCHANGED <<users, nextId, secret, nodeEnv, issued, ops, proc, mw>>

\* the steps of the service calls the route handlers make
HandlerStep(p) ==
  \/ CreateFindByEmail(p) \/ CreateInsert(p) \/ Login(p)
  \/ UpdateFindById(p) \/ UpdateFindByEmail(p) \/ UpdateWrite(p) \/ DeleteUser(p)

\* the steps of a service call in flight
SvcStep(p) == HandlerStep(p) \/ ValidateToken(p)

\* one client of the services, one call after the other
NextSvc ==
  \/ CallCreateUser(1, MaxCalls) \/ CallRegister(1, MaxCalls) \/ CallLogin(1, MaxCalls)
  \/ CallValidateToken(1, MaxCalls) \/ CallUpdateUser(1, MaxCalls)
  \/ CallDeleteUser(1, MaxCalls)
  \/ SvcStep(1)
  \/ Return(1)
  \/ Tick

SpecSvc == InitSvc /\ [][NextSvc]_vars

\* two clients that create and register users concurrently
NextRace ==
  \E p \in Procs :
    \/ CallCreateUser(p, MaxRacerCalls) \/ CallRegister(p, MaxRacerCalls)
    \/ CreateFindByEmail(p) \/ CreateInsert(p)
    \/ Return(p)

SpecRace == InitSvc /\ [][NextRace]_vars

\* one HTTP client
Next ==
  \/ HttpRequest(1)
  \/ HandlerStep(1) \/ FindById(1) \/ FindAll(1)
  \/ Return(1)
  \/ Tick

Spec == Init /\ [][Next]_vars

\* ------------------------------------------------ the middleware on its own
\* tokens a client can present: any payload, expiry and signing secret
MwTokens ==
  {Token(uid, "a@x", exp, sig, "jwt") : uid \in {0, 1}, exp \in {0, MaxTime + 1}, sig \in {"s1", "s2"}}
  \cup {Token(1, "", MaxTime + 1, "s1", "jwt"), GarbageToken}

GoodToken == Token(1, "a@x", MaxTime + 1, "s1", "jwt")

Bearer(t) == Header(<<Ch("Bearer"), Ch(" "), TokCh(t)>>)

MwHeaders ==
  {Bearer(t) : t \in MwTokens}
  \cup { NoHeader,
         Header(<<>>),
         Header(<<Ch("Bearer")>>),
         Header(<<Ch("Bearer"), Ch(" ")>>),
         Header(<<Ch("Bearer"), TokCh(GoodToken)>>),
         Header(<<Ch("Basic"), Ch(" "), TokCh(GoodToken)>>),
         Header(<<Ch("bearer"), Ch(" "), TokCh(GoodToken)>>),
         Header(<<Ch("Bearer"), Ch(" "), Ch(" "), TokCh(GoodToken)>>),
         Header(<<Ch("Bearer"), Ch(" "), TokCh(GoodToken), Ch(" "), TokCh(GoodToken)>>),
         Header(<<Ch(" "), TokCh(GoodToken)>>),
         Header(<<TokCh(GoodToken)>>) }

InitMw ==
  /\ InitSvc
  /\ now \in 0..MaxTime

\* authenticateToken(req, res, next) on a request with header hdr
MwAuthenticate(k) ==
  /\ mw[k].stage = "idle"
  /\ \E hdr \in MwHeaders, fault \in JwtFaults :
       mw' = [mw EXCEPT ![k] =
                [fault |-> fault, kind |-> "authenticateToken", hdr |-> hdr, stage |-> "done",
                 out |-> authenticateToken(hdr, secret, now, fault)]]
  /\ UNCHANGED <<users, nextId, now, secret, nodeEnv, issued, ops, proc>>

\* optionalAuth(req, res, next) on a request with header hdr
MwOptional(k) ==
  /\ mw[k].stage = "idle"
  /\ \E hdr \in MwHeaders, fault \in JwtFaults :
       mw' = [mw EXCEPT ![k] =
                [fault |-> fault, kind |-> "optionalAuth", hdr |-> hdr, stage |-> "done",
                 out |-> optionalAuth(hdr, secret, now, fault)]]
  /\ UNCHANGED <<users, nextId, now, secret, nodeEnv, issued, ops, proc>>

NextMw == \E k \in Slots : MwAuthenticate(k) \/ MwOptional(k)

SpecMw == InitMw /\ [][NextMw]_vars

\* ---------------------------------------------- the token utility on its own
\* tokens handed to the utility: those a client can present, or the empty string
JwtTokens == MwTokens \cup {EmptyToken}

\* JWTUtil.verifyToken(token)
JwtVerifyToken(k) ==
  /\ mw[k].stage = "idle"
  /\ \E t \in JwtTokens, fault \in JwtFaults :
       mw' = [mw EXCEPT ![k] =
                [fault |-> fault, kind |-> "verifyToken", tok |-> t, stage |-> "done",
                 out |-> verifyToken(t, secret, now, fault)]]
  /\ UNCHANGED <<users, nextId, now, secret, nodeEnv, issued, ops, proc>>

\* JWTUtil.isTokenExpired(token)
JwtIsTokenExpired(k) ==
  /\ mw[k].stage = "idle"
  /\ \E t \in JwtTokens, fault \in JwtFaults :
       mw' = [mw EXCEPT ![k] =
                [fault |-> fault, kind |-> "isTokenExpired", tok |-> t, stage |-> "done",
                 out |-> isTokenExpired(t, secret, now, fault)]]
  /\ UNCHANGED <<users, nextId, now, secret, nodeEnv, issued, ops, proc>>

NextJwt == \E k \in Slots : JwtVerifyToken(k) \/ JwtIsTokenExpired(k)

SpecJwt == InitMw /\ [][NextJwt]_vars

\* ---------------------------------------------- the controllers on their own
\* users a service hands to a controller
CtlUsers ==
  {User(1, "n1", "a@x", BcryptHash("P1")), User(2, "n2", "b@x", BcryptHash("P2"))}

\* the errors each service method raises
Throws(op) ==
  CASE op = "register" ->
         {UserAlreadyExistsError("a@x"), AuthServiceError("Registration failed", MsgDb)}
    [] op = "login" ->
         {InvalidCredentialsError, AuthServiceError("Login failed", MsgDb)}
    [] op = "createUser" ->
         {UserAlreadyExistsError("a@x"), UserServiceError("Failed to create user", MsgDb)}
    [] op = "updateUser" ->
         {UserNotFoundError("id"), UserAlreadyExistsError("a@x"),
          UserServiceError("Failed to update user", MsgDb)}
    [] op = "deleteUser" ->
         {UserNotFoundError("id"), UserServiceError("Failed to delete user", MsgDb)}
    [] op = "findById" -> {UserServiceError("Failed to find user by ID", MsgDb)}
    [] OTHER           -> {UserServiceError("Failed to retrieve users", MsgDb)}

\* the values each service method returns
Returns(op) ==
  CASE op \in {"register", "login"} ->
         {Res("ok", "", "", withoutPassword(u), {},
              Token(u.id, u.email, DEFAULT_EXPIRES_IN, "s1", "jwt"), NoPayload) : u \in CtlUsers}
    [] op \in {"createUser", "updateUser"} ->
         {Res("ok", "", "", u, {}, EmptyToken, NoPayload) : u \in CtlUsers}
    [] op = "findById" ->
         {Res("ok", "", "", u, {}, EmptyToken, NoPayload) : u \in CtlUsers \cup {NoUser}}
    [] op = "deleteUser" -> {Res("ok", "", "", NoUser, {}, EmptyToken, NoPayload)}
    [] OTHER -> {Res("ok", "", "", NoUser, us, EmptyToken, NoPayload) : us \in SUBSET CtlUsers}

\* what the try block of a handler can end in: the value its service method
\* returns, an error the method raises, or any other thrown value
ServiceOutcomes(op) == Returns(op) \cup Throws(op) \cup {OtherThrown}

\* the handler of a route, its service method ending in outcome r
CtlHandle(p) ==
  /\ proc[p].pc = "idle"
  /\ \E route \in Routes :
       \E r \in ServiceOutcomes(ServiceOf(route)) :
         proc' = [proc EXCEPT ![p] =
                    Finish([Idle EXCEPT !.route = route, !.op = ServiceOf(route),
                                        !.ran = <<"handler">>],
                           r, {}, FALSE)]
  /\ UNCHANGED <<users, nextId, now, secret, nodeEnv, issued, ops, mw>>

\* headers of the requests that meet the middleware
CtlHeaders ==
  {NoHeader, Bearer(GarbageToken), Bearer(GoodToken),
   Bearer(Token(1, "a@x", 0, "s1", "jwt"))}

\* a request that one of the middleware of its route answers
CtlMiddleware(p) ==
  /\ proc[p].pc = "idle"
  /\ \E route \in Routes :
       \E hdr \in CtlHeaders, b \in HttpBodies(route), id \in HttpIds(route) :
         LET rec == RunChain(Chain(route),
                             [Idle EXCEPT !.pc = FirstPc(ServiceOf(route)),
                                          !.op = ServiceOf(route), !.route = route,
                                          !.hdr = hdr, !.data = b, !.id = id])
         IN /\ rec.pc = "done"
            /\ proc' = [proc EXCEPT ![p] = rec]
  /\ UNCHANGED <<users, nextId, now, secret, nodeEnv, issued, ops, mw>>

\* errors that reach the global error handler
HandlerErrors ==
  { AppError("Route GET /api/users/x/y not found", 404, "NOT_FOUND"),
    AppError("Custom error", 400, "CUSTOM_CODE"),
    NamedError("ZodError", "Invalid input"),
    NamedError("JsonWebTokenError", "jwt malformed"),
    NamedError("TokenExpiredError", "jwt expired"),
    NamedError("CastError", "Cast to ObjectId failed"),
    NamedError("Error", "duplicate key value violates unique constraint"),
    NamedError("Error", "User not found"),
    NamedError("Error", "Something went wrong"),
    NamedError("SyntaxError", "Unexpected token in JSON") }

\* errorHandler(error, req, res, next) on a request of some route; the error
\* is kept as the outcome the response answers
CtlErrorHandler(p) ==
  /\ proc[p].pc = "idle"
  /\ \E route \in Routes, e \in HandlerErrors :
       proc' = [proc EXCEPT ![p] =
                  [Idle EXCEPT !.pc = "done", !.op = "errorHandler", !.route = route,
                               !.result = Thrown(e.name, e.message, e.code),
                               !.resp = errorHandler(e, nodeEnv)]]
  /\ UNCHANGED <<users, nextId, now, secret, nodeEnv, issued, ops, mw>>

\* the handlers and middleware on their own: JWT_SECRET may be unset
InitCtl ==
  /\ users = {}
  /\ nextId = 1
  /\ now = 0
  /\ secret \in Secrets
  /\ nodeEnv \in NodeEnvs
  /\ issued = {}
  /\ ops = [p \in Procs |-> 0]
  /\ proc = [p \in Procs |-> Idle]
  /\ mw = [k \in Slots |-> MwIdle]

NextCtl ==
  \E p \in Procs : CtlHandle(p) \/ CtlMiddleware(p) \/ CtlErrorHandler(p) \/ Return(p)

SpecCtl == InitCtl /\ [][NextCtl]_vars

\* ------------------------------------------- the password utility and login
\* values found in the password column: digests, a string that is no digest,
\* the empty string
StoredHashes == {BcryptHash("P1"), BcryptHash("P2"), MalformedHash, EmptyHash}

\* a store with one user, whatever its password column holds
InitPw ==
  /\ users \in {{User(1, "n1", "a@x", h)} : h \in StoredHashes}
  /\ nextId = 2
  /\ now = 0
  /\ secret = "s1"
  /\ nodeEnv = "development"
  /\ issued = {}
  /\ ops = [p \in Procs |-> 0]
  /\ proc = [p \in Procs |-> Idle]
  /\ mw = [k \in Slots |-> MwIdle]

\* PasswordUtil.verifyPassword(password, hashedPassword)
PwVerifyPassword(k) ==
  /\ mw[k].stage = "idle"
  /\ \E pw \in Passwords, h \in StoredHashes :
       mw' = [mw EXCEPT ![k] =
                [hash |-> h, password |-> pw, kind |-> "verifyPassword", stage |-> "done",
                 out |-> verifyPassword(pw, h)]]
  /\ UNCHANGED <<users, nextId, now, secret, nodeEnv, issued, ops, proc>>

NextPw ==
  \/ \E k \in Slots : PwVerifyPassword(k)
  \/ CallLogin(1, MaxCalls)
  \/ Login(1)
  \/ Return(1)

SpecPw == InitPw /\ [][NextPw]_vars

\* --------------------------------------------------- registration on its own
\* a client that only registers: every stored user was created by register
NextReg ==
  \/ CallRegister(1, MaxCalls)
  \/ CreateFindByEmail(1)
  \/ CreateInsert(1)
  \/ Return(1)

SpecReg == InitSvc /\ [][NextReg]_vars

\* ------------------------------------------ an update racing with a deletion
\* a store that holds users already
InitUpDel ==
  /\ users = {User(id, "n1", IF id = 1 THEN "a@x" ELSE "b@x", BcryptHash("P1")) : id \in 1..MaxUsers}
  /\ nextId = MaxUsers + 1
  /\ now = 0
  /\ secret = "s1"
  /\ nodeEnv = "development"
  /\ issued = {}
  /\ ops = [p \in Procs |-> 0]
  /\ proc = [p \in Procs |-> Idle]
  /\ mw = [k \in Slots |-> MwIdle]

\* client 1 updates users while client 2 deletes users
NextUpDel ==
  \/ CallUpdateUser(1, MaxRacerCalls)
  \/ UpdateFindById(1)
  \/ UpdateFindByEmail(1)
  \/ UpdateWrite(1)
  \/ CallDeleteUser(2, MaxRacerCalls)
  \/ DeleteUser(2)
  \/ \E p \in Procs : Return(p)

SpecUpDel == InitUpDel /\ [][NextUpDel]_vars

\* ================================================================ properties
\* ------------------------------------------------------------------------ C1
\* two createUser/register calls with the same e-mail that ran concurrently,
\* both started when no stored e-mail matched, with usable passwords, a
\* signing secret and a storage layer that answers
CreateRace(p, q) ==
  /\ p # q
  /\ proc[p].pc = "done" /\ proc[q].pc = "done"
  /\ proc[p].op \in CreateOps /\ proc[q].op \in CreateOps
  /\ proc[p].data.email = proc[q].data.email
  /\ proc[p].overlap /\ proc[q].overlap
  /\ proc[p].free /\ proc[q].free
  /\ ~proc[p].faulted /\ ~proc[q].faulted
  /\ proc[p].data.password # "" /\ proc[q].data.password # ""
  /\ secret # ""

LoginDone(p) ==
  /\ proc[p].pc = "done" /\ proc[p].route = "POST /auth/login"
  /\ "handler" \in {proc[p].ran[i] : i \in 1..Len(proc[p].ran)}
  /\ ~proc[p].faulted

\* the e-mail of the login belongs to no stored user
LoginUnknownEmail(p) ==
  ~\E u \in users : u.email = toLowerCase(proc[p].data.email)

\* the e-mail is registered and the password is not the one that was hashed
LoginWrongPassword(p) ==
  \E u \in users : /\ u.email = toLowerCase(proc[p].data.email)
                   /\ u.password # BcryptHash(proc[p].data.password)

\* C2: a login with a registered e-mail and a wrong password and a login with
\* an e-mail of no user fail identically: the same InvalidCredentials error
\* with the same message from AuthService.login and the same 401
\* INVALID_CREDENTIALS response with the same message from the controller.
C2_LoginFailuresIdentical ==
  \A p \in Procs :
    LoginDone(p) /\ (LoginUnknownEmail(p) \/ LoginWrongPassword(p)) =>
      /\ proc[p].result = InvalidCredentialsError
      /\ proc[p].resp = ErrorResp(401, "INVALID_CREDENTIALS", MsgInvalidCreds)

C2_Witness ==
  \E p \in Procs :
    /\ LoginDone(p) /\ LoginWrongPassword(p)
    /\ "verifyPassword" \in proc[p].calls
    /\ proc[p].resp.status = 401

\* ------------------------------------------------------------------------ C3
\* C3: no success response of any endpoint carries a user object with a
\* password key.
C3_NoPasswordInResponses ==
  \A p \in Procs :
    proc[p].resp.success => \A u \in proc[p].resp.users : "password" \notin DOMAIN u

\* a success response of a users route carrying a stored user
C3_Witness ==
  \E p \in Procs :
    /\ proc[p].pc = "done" /\ proc[p].route \in UserRoutes
    /\ proc[p].resp.success
    /\ \E u \in proc[p].resp.users : \E v \in users : v.id = u.id /\ "password" \in DOMAIN v

\* ------------------------------------------------------------------------ C4
Ran(p) == {proc[p].ran[i] : i \in 1..Len(proc[p].ran)}

\* the header is "Bearer <token>" for a token the application has issued
CarriesIssuedToken(p) ==
  \E t \in issued : proc[p].hdr = Header(<<Ch("Bearer"), Ch(" "), TokCh(t)>>)

AuthDone(k) == mw[k].stage = "done" /\ mw[k].kind = "authenticateToken"

\* the header value holds exactly one space, right after a leading "Bearer":
\* exactly two space-separated parts, the first of them "Bearer"
TwoPartsBearer(cs) ==
  /\ Len(cs) >= 2
  /\ cs[1].c = "Bearer" /\ cs[2].c = " "
  /\ \A i \in 3..Len(cs) : cs[i].c # " "

Rejected(k, code) ==
  /\ mw[k].out.status = 401 /\ mw[k].out.code = code
  /\ mw[k].out.verified = 0 /\ ~mw[k].out.next

\* the statement of C5 as written: every header that is present and is not
\* two parts with first part "Bearer" gives INVALID_TOKEN_FORMAT
C5_AsWritten ==
  \A k \in Slots :
    AuthDone(k) =>
      /\ (~mw[k].hdr.present => Rejected(k, "MISSING_TOKEN"))
      /\ (mw[k].hdr.present /\ ~TwoPartsBearer(mw[k].hdr.chars)
            => Rejected(k, "INVALID_TOKEN_FORMAT"))
      /\ (mw[k].hdr.present /\ mw[k].hdr.chars = <<Ch("Bearer"), Ch(" ")>>
            => Rejected(k, "MISSING_TOKEN"))

\* C5: authenticateToken checks the Authorization header in a fixed order and
\* stops at the first failure: no header, or a header whose value is the
\* empty string, gives 401 MISSING_TOKEN; a non-empty header that is not
\* exactly two space-separated parts with first part "Bearer" gives 401
\* INVALID_TOKEN_FORMAT; "Bearer " with an empty second part gives 401
\* MISSING_TOKEN; in these cases token verification is never invoked and next
\* is never called, and in every other case verification is invoked.
C5_HeaderChecks ==
  \A k \in Slots :
    AuthDone(k) =>
      /\ (~mw[k].hdr.present \/ mw[k].hdr.chars = <<>>
            => /\ Rejected(k, "MISSING_TOKEN")
               /\ mw[k].out.message = "Authorization header is required")
      /\ (mw[k].hdr.present /\ mw[k].hdr.chars # <<>> /\ ~TwoPartsBearer(mw[k].hdr.chars)
            => Rejected(k, "INVALID_TOKEN_FORMAT"))
      /\ (mw[k].hdr.present /\ mw[k].hdr.chars = <<Ch("Bearer"), Ch(" ")>>
            => /\ Rejected(k, "MISSING_TOKEN")
               /\ mw[k].out.message = "Token is required")
      /\ (mw[k].hdr.present /\ TwoPartsBearer(mw[k].hdr.chars) /\ Len(mw[k].hdr.chars) > 2
            => mw[k].out.verified = 1)

\* a header with three parts was refused for its format
C5_Witness ==
  \E k \in Slots :
    /\ AuthDone(k)
    /\ mw[k].hdr.present /\ Len(mw[k].hdr.chars) > 3 /\ mw[k].hdr.chars[1].c = "Bearer"
    /\ ~TwoPartsBearer(mw[k].hdr.chars)
    /\ Rejected(k, "INVALID_TOKEN_FORMAT")

\* ------------------------------------------------------------------------ C6
\* the token a well-formed bearer header carries
BearerOf(k) == mw[k].hdr.chars[3].t

CarriesToken(k) ==
  /\ AuthDone(k)
  /\ mw[k].hdr.present /\ Len(mw[k].hdr.chars) = 3
  /\ TwoPartsBearer(mw[k].hdr.chars) /\ mw[k].hdr.chars[3].c = "tok"

Failed(k, status, code) ==
  /\ ~mw[k].out.next /\ mw[k].out.status = status /\ mw[k].out.code = code
  /\ mw[k].out.user = NoPayload

FailureKind(k) ==
  LET t == BearerOf(k) IN
  CASE secret = ""                     -> "missing secret"
    [] t.form # "jwt" \/ t.sig # secret -> "malformed or invalid signature"
    [] now >= t.exp                    -> "expired"
    [] t.userId = 0 \/ t.email = ""    -> "missing fields"
    [] OTHER                           -> "none"

PlainFailure(k) == CarriesToken(k) /\ mw[k].fault = "none" /\ FailureKind(k) # "none"

C9_UnknownUserRejected ==
  \A p \in Procs :
    /\ proc[p].route \in {"GET /users", "GET /users/:id"}
    /\ proc[p].pc # "idle"
    /\ \E t \in issued : /\ proc[p].hdr = Bearer(t)
                         /\ proc[p].auth.verified = 1
                         /\ proc[p].auth.message \notin {MsgExpired, MsgInvalid}
                         /\ ~\E u \in users : u.id = t.userId
    => /\ proc[p].pc = "done"
       /\ proc[p].resp.status = 401 /\ proc[p].resp.code = "INVALID_TOKEN"
       /\ "handler" \notin Ran(p)

\* ----------------------------------------------------------------------- C10
\* C10: validateToken verifies the token and, only if that succeeds, looks
\* the user up by the payload's userId; it returns the payload only when the
\* user still exists; every failure is an AuthServiceError, 'User no longer
\* exists' when the user is absent and 'Token validation failed' when the
\* token is invalid or expired or the lookup fails; the lookup is never made
\* when verification fails.
C10_ValidateTokenStep(p) ==
  proc[p].pc = "vt" /\ proc'[p].pc = "done" =>
    LET t      == proc[p].tok
        r      == proc'[p].result
        valid  == t \in issued /\ now < t.exp
        exists == \E u \in users : u.id = t.userId
    IN
    /\ r.kind \in {"ok", "AuthServiceError"}
    /\ "verifyToken" \in proc'[p].calls
    /\ (r.kind = "ok" => /\ valid /\ exists
                         /\ r.payload = [userId |-> t.userId, email |-> t.email]
                         /\ "findById" \in proc'[p].calls)
    /\ (~valid => /\ r.kind = "AuthServiceError" /\ r.message = "Token validation failed"
                  /\ "findById" \notin proc'[p].calls)
    /\ (proc'[p].faulted => r.kind = "AuthServiceError" /\ r.message = "Token validation failed")
    /\ (valid /\ ~proc'[p].faulted =>
          IF exists THEN r.kind = "ok"
          ELSE r.kind = "AuthServiceError" /\ r.message = "User no longer exists")

C10_ValidateToken == [][\A p \in Procs : C10_ValidateTokenStep(p)]_vars

\* a token that still verifies failed validateToken because its user was
\* deleted after the token was issued
C10_Witness ==
  \E p \in Procs :
    /\ proc[p].pc = "done" /\ proc[p].op = "validateToken"
    /\ proc[p].tok \in issued /\ now < proc[p].tok.exp
    /\ ~\E u \in users : u.id = proc[p].tok.userId
    /\ proc[p].result.kind = "AuthServiceError"
    /\ proc[p].result.message = "User no longer exists"

\* ----------------------------------------------------------------------- C11
\* a createUser or register call that started when a stored user already had
\* its e-mail, ignoring letter case, with a usable password and no storage
\* failure
LaterCreate(p) ==
  /\ proc[p].pc = "done" /\ proc[p].op \in CreateOps
  /\ ~proc[p].free /\ ~proc[p].faulted
  /\ proc[p].data.password # ""

\* C11: after a successful registration with e-mail e, every later
\* registration or user creation whose e-mail equals e ignoring letter case
\* fails with UserAlreadyExists, creates no user, hashes no password and does
\* not call the storage create.
C11_LaterCreateRejected ==
  \A p \in Procs :
    LaterCreate(p) =>
      /\ proc[p].result.kind = "UserAlreadyExists"
      /\ "hashPassword" \notin proc[p].calls
      /\ "create" \notin proc[p].calls
      /\ Cardinality({u \in users : toLowerCase(u.email) = toLowerCase(proc[p].data.email)}) = 1

\* ----------------------------------------------------------------------- C12
\* C12: in every reachable state no two stored users have e-mails that are
\* equal ignoring letter case, and every stored e-mail is in lowercase.
C12_EmailsUniqueLowercase ==
  /\ \A u, v \in users : u # v => toLowerCase(u.email) # toLowerCase(v.email)
  /\ \A u \in users : u.email = toLowerCase(u.email)

\* ----------------------------------------------------------------------- C13
\* a call of process p that returned a user
Succeeded(p, op) ==
  proc[p].pc = "done" /\ proc[p].op = op /\ proc[p].result.kind = "ok"

\* the stored user that a successful updateUser of process p wrote
Target(p) == CHOOSE u \in users : u.id = proc[p].id

\* C13: the password field of every stored user holds only a value produced
\* by the password hash function, never a plain password: createUser hashes
\* before the storage create, and updateUser re-hashes whenever a password is
\* supplied and otherwise leaves the stored hash untouched.
C13_OnlyHashesStored ==
  /\ \A u \in users :
       /\ u.password.alg = "bcrypt"
       /\ u.password \in {BcryptHash(pw) : pw \in Passwords \ {""}}
  /\ \A p \in Procs :
       /\ (Succeeded(p, "createUser") =>
             /\ "hashPassword" \in proc[p].calls
             /\ proc[p].result.user.password = BcryptHash(proc[p].data.password))
       /\ (Succeeded(p, "updateUser") =>
             /\ \E u \in users : u.id = proc[p].id
             /\ IF Truthy(proc[p].data.password)
                THEN /\ "hashPassword" \in proc[p].calls
                     /\ Target(p).password = BcryptHash(proc[p].data.password)
                ELSE /\ "hashPassword" \notin proc[p].calls
                     /\ Target(p).password = proc[p].existing.password)

\* an update that supplied a new password stored its hash in place of the old
C13_Witness ==
  \E p \in Procs :
    /\ Succeeded(p, "updateUser")
    /\ Truthy(proc[p].data.password)
    /\ proc[p].existing.password # BcryptHash(proc[p].data.password)
    /\ \E u \in users : u.id = proc[p].id /\ u.password = BcryptHash(proc[p].data.password)

\* ----------------------------------------------------------------------- C14
\* slot k holds a finished call of the token utility in which the library
\* behaved as documented
JwtDone(k, kind) ==
  mw[k].stage = "done" /\ mw[k].kind = kind /\ mw[k].fault = "none"

\* what is wrong with a token, in the order in which the library looks
TokenKind(t) ==
  CASE t.form # "jwt" \/ t.sig # secret -> "malformed or invalid signature"
    [] now >= t.exp                    -> "expired"
    [] t.userId = 0 \/ t.email = ""    -> "missing fields"
    [] OTHER                           -> "valid"

\* C14: verifyToken fails in distinguishable ways.  Without a signing secret
\* it fails with the secret error, even for an empty token; otherwise an empty
\* token fails with 'Token must be a non-empty string', a malformed token or
\* one signed with another secret with 'Invalid token', an expired token with
\* 'Token expired', and a correctly signed token whose payload lacks userId or
\* email with 'Invalid token payload'; no two of these messages are the same.
C14_VerifyTokenFailures ==
  /\ \A k \in Slots :
       JwtDone(k, "verifyToken") =>
         mw[k].out =
           IF secret = "" THEN Err(MsgSecret)
           ELSE IF mw[k].tok = EmptyToken THEN Err(MsgEmptyToken)
           ELSE CASE TokenKind(mw[k].tok) = "malformed or invalid signature" -> Err(MsgInvalid)
                  [] TokenKind(mw[k].tok) = "expired"        -> Err(MsgExpired)
                  [] TokenKind(mw[k].tok) = "missing fields" -> Err(MsgBadPayload)
                  [] OTHER -> Ok([userId |-> mw[k].tok.userId, email |-> mw[k].tok.email])
  /\ Cardinality({MsgSecret, MsgEmptyToken, MsgInvalid, MsgExpired, MsgBadPayload}) = 5

\* an empty token was verified without a signing secret, and a correctly signed
\* token without userId was verified with one
C14_Witness ==
  \/ /\ secret = ""
     /\ JwtDone(1, "verifyToken") /\ mw[1].tok = EmptyToken
     /\ JwtDone(2, "verifyToken") /\ mw[2].tok.form = "jwt"
  \/ /\ secret # ""
     /\ JwtDone(1, "verifyToken") /\ TokenKind(mw[1].tok) = "missing fields"
     /\ JwtDone(2, "verifyToken") /\ TokenKind(mw[2].tok) = "expired"

\* ----------------------------------------------------------------------- C15
\* C15: isTokenExpired(token) returns true exactly when verifyToken(token)
\* fails with the expired kind; it returns false, and raises nothing, for a
\* valid token, a malformed or wrongly signed token, an empty token, a token
\* with missing payload fields, and when the signing secret is not configured.
C15_IsTokenExpired ==
  \A k \in Slots :
    mw[k].stage = "done" /\ mw[k].kind = "isTokenExpired" =>
      /\ mw[k].out \in BOOLEAN
      /\ mw[k].out = (verifyToken(mw[k].tok, secret, now, mw[k].fault) = Err(MsgExpired))
      /\ mw[k].out = (/\ mw[k].fault = "none" /\ secret # ""
                      /\ mw[k].tok # EmptyToken
                      /\ TokenKind(mw[k].tok) = "expired")

\* one call answered true for an expired token, another answered false for a
\* token that fails verification for a different reason
C15_Witness ==
  /\ mw[1].stage = "done" /\ mw[1].kind = "isTokenExpired" /\ mw[1].out = TRUE
  /\ mw[2].stage = "done" /\ mw[2].kind = "isTokenExpired" /\ mw[2].out = FALSE
  /\ mw[2].fault = "none" /\ TokenKind(mw[2].tok) \in {"malformed or invalid signature", "missing fields"}

\* ----------------------------------------------------------------------- C16
\* a finished call of op by process p
Done(p, op) == proc[p].pc = "done" /\ proc[p].op = op

\* C16: AuthService.register passes a UserAlreadyExists raised by user
\* creation through unchanged and issues no token in that case; every other
\* failure, a failure of token issuance after the user was created included,
\* is raised as AuthServiceError 'Registration failed' carrying the original
\* error; on success the token is issued for exactly the id and e-mail of the
\* newly created user.
C16_RegisterOutcomes ==
  \A p \in Procs :
    Done(p, "register") =>
      LET r == proc[p].result
          stored == {u \in users : u.email = proc[p].data.email}
      IN
      /\ r.kind \in {"ok", "UserAlreadyExists", "AuthServiceError"}
      /\ r.kind = "UserAlreadyExists" =>
           /\ r = UserAlreadyExistsError(proc[p].data.email)
           /\ "generateToken" \notin proc[p].calls
           /\ r.token = EmptyToken
      /\ r.kind = "AuthServiceError" =>
           /\ r.message = "Registration failed"
           /\ r.token = EmptyToken
           /\ IF "generateToken" \in proc[p].calls
              THEN secret = "" /\ r.detail = MsgSecret /\ stored # {}
              ELSE r.detail = "Failed to create user"
      /\ proc[p].faulted => r.kind = "AuthServiceError"
      /\ proc[p].data.password = "" /\ ~proc[p].faulted => r.kind # "ok"
      /\ "generateToken" \in proc[p].calls /\ secret = "" => r.kind = "AuthServiceError"
      /\ r.kind = "ok" =>
           /\ r.token.form = "jwt" /\ r.token.sig = secret
           /\ r.token \in issued
           /\ r.token.userId = r.user.id /\ r.token.email = r.user.email
           /\ r.user.email = proc[p].data.email
           /\ \E u \in stored : u.id = r.user.id

\* a registration with an e-mail that was already stored was rejected with the
\* error of user creation
C16_Witness ==
  \E p \in Procs :
    /\ Done(p, "register") /\ ~proc[p].faulted
    /\ proc[p].result.kind = "UserAlreadyExists"
    /\ \E u \in users : u.email = proc[p].data.email

\* ----------------------------------------------------------------------- C17
\* the user that login of process p looks up
LoginUser(p) == FindUniqueEmail(toLowerCase(proc[p].data.email))

\* C17: AuthService.login raises InvalidCredentials only when the e-mail
\* lookup returns no user or the password comparison returns false; a failure
\* of the lookup, of the comparison itself or of token issuance is raised as
\* AuthServiceError 'Login failed', never as InvalidCredentials.  The password
\* is not compared when the user is absent, and no token is issued unless the
\* comparison returned true.
C17_LoginOutcomes ==
  \A p \in Procs :
    Done(p, "login") =>
      LET r == proc[p].result
          u == LoginUser(p)
          v == verifyPassword(proc[p].data.password, u.password)
      IN
      /\ r.kind \in {"ok", "InvalidCredentials", "AuthServiceError"}
      /\ r.kind = "InvalidCredentials" =>
           /\ ~proc[p].faulted
           /\ u = NoUser \/ (v.ok /\ ~v.match)
           /\ "generateToken" \notin proc[p].calls
      /\ proc[p].faulted =>
           r = AuthServiceError("Login failed", "Failed to find user by email")
      /\ ~proc[p].faulted /\ u # NoUser /\ ~v.ok =>
           r = AuthServiceError("Login failed", v.thrown)
      /\ ~proc[p].faulted /\ u # NoUser /\ v.ok /\ v.match /\ secret = "" =>
           r = AuthServiceError("Login failed", MsgSecret)
      /\ ~proc[p].faulted /\ u = NoUser => "verifyPassword" \notin proc[p].calls
      /\ "generateToken" \in proc[p].calls \/ r.token # EmptyToken =>
           /\ "verifyPassword" \in proc[p].calls
           /\ v.ok /\ v.match
      /\ r.kind = "ok" => r.token \in issued /\ r.token.userId = u.id

\* a login whose password comparison itself failed was answered 'Login failed'
C17_Witness ==
  \E p \in Procs :
    /\ Done(p, "login") /\ ~proc[p].faulted
    /\ LoginUser(p) # NoUser
    /\ ~verifyPassword(proc[p].data.password, LoginUser(p).password).ok
    /\ proc[p].result.kind = "AuthServiceError"

\* ----------------------------------------------------------------------- C18
\* a step in which the updateUser call of process p returns, no storage call
\* having failed
UpdateReturns(p) ==
  /\ proc[p].op = "updateUser" /\ proc[p].pc \notin {"idle", "done"}
  /\ proc'[p].pc = "done" /\ ~proc'[p].faulted

\* C18: updateUser raises UserNotFound when no user has the target id, and
\* raises UserAlreadyExists when the supplied e-mail differs from the target's
\* current e-mail and belongs to a different existing user; in both cases the
\* storage update is never called and the store is left unchanged.
C18_UpdateRejections ==
  [][\A p \in Procs :
       UpdateReturns(p) =>
         LET t == FindUniqueId(proc[p].id)
             e == proc[p].data.email
         IN
         /\ t = NoUser =>
              /\ proc'[p].result.kind = "UserNotFound"
              /\ "update" \notin proc'[p].calls
              /\ users' = users
         /\ (/\ t # NoUser /\ Truthy(e) /\ e # t.email
             /\ \E v \in users : v.id # t.id /\ v.email = e) =>
              /\ proc'[p].result.kind = "UserAlreadyExists"
              /\ "update" \notin proc'[p].calls
              /\ users' = users]_vars

\* ----------------------------------------------------------------------- C19
\* a step in which the updateUser call of process p returns
UpdateEnds(p) ==
  /\ proc[p].op = "updateUser" /\ proc[p].pc \notin {"idle", "done"}
  /\ proc'[p].pc = "done"

\* C19: updating an existing user with an e-mail equal to that user's current
\* e-mail succeeds and performs no e-mail conflict lookup (findByEmail is not
\* called); it never raises UserAlreadyExists.
C19_SameEmailUpdate ==
  [][\A p \in Procs :
       LET t == FindUniqueId(proc[p].id) IN
       UpdateEnds(p) /\ t # NoUser /\ proc[p].data.email = t.email =>
         /\ "findByEmail" \notin proc'[p].calls
         /\ proc'[p].result.kind # "UserAlreadyExists"
         /\ ~proc'[p].faulted =>
              /\ proc'[p].result.kind = "ok"
              /\ proc'[p].result.user.email = t.email
              /\ \E n \in users' : n.id = t.id /\ n.email = t.email]_vars

\* an update that supplied the target's own e-mail succeeded without a lookup
C19_Witness ==
  \E p \in Procs :
    /\ Succeeded(p, "updateUser")
    /\ proc[p].data.email = proc[p].existing.email
    /\ "findByEmail" \notin proc[p].calls
    /\ "update" \in proc[p].calls

\* ----------------------------------------------------------------------- C20
\* C20: updateUser has partial-update semantics: a successful update changes
\* only those of name, e-mail and password that were supplied, leaves every
\* field that was not supplied with its previous value, never changes the id
\* of the target user, and changes no other user.
C20_PartialUpdate ==
  [][\A p \in Procs :
       UpdateEnds(p) /\ proc'[p].result.kind = "ok" =>
         LET t == FindUniqueId(proc[p].id)
             d == proc[p].data
             n == proc'[p].result.user
         IN
         /\ t # NoUser
         /\ n.id = t.id
         /\ n.name = (IF Truthy(d.name) THEN d.name ELSE t.name)
         /\ n.email = (IF Truthy(d.email) THEN d.email ELSE t.email)
         /\ n.password = (IF Truthy(d.password) THEN BcryptHash(d.password) ELSE t.password)
         /\ n \in users'
         /\ users' \ {n} = users \ {t}
         /\ Cardinality(users') = Cardinality(users)]_vars

\* an update that supplied only a password succeeded and kept name and e-mail
C20_Witness ==
  \E p \in Procs :
    /\ Succeeded(p, "updateUser")
    /\ ~Truthy(proc[p].data.name) /\ ~Truthy(proc[p].data.email)
    /\ Truthy(proc[p].data.password)
    /\ proc[p].result.user.name = proc[p].existing.name
    /\ proc[p].result.user.password # proc[p].existing.password
    /\ proc[p].result.user \in users

\* ----------------------------------------------------------------------- C21
\* a step in which the deleteUser call of process p returns, the storage
\* layer having answered
DeleteReturns(p) ==
  /\ proc[p].op = "deleteUser" /\ proc[p].pc = "del"
  /\ proc'[p].pc = "done" /\ ~proc'[p].faulted

\* C21: deleteUser on an id that is not in the store raises UserNotFound and
\* leaves the store unchanged; deleting an existing id succeeds and removes
\* exactly that user, and since a removed id is never stored again, deleting
\* it a second time raises UserNotFound.
C21_DeleteUser ==
  [][/\ \A p \in Procs :
          DeleteReturns(p) =>
            LET t == FindUniqueId(proc[p].id) IN
            IF t = NoUser
            THEN /\ proc'[p].result.kind = "UserNotFound"
                 /\ users' = users
            ELSE /\ proc'[p].result.kind = "ok"
                 /\ users' = users \ {t}
                 /\ Cardinality(users') = Cardinality(users) - 1
     /\ nextId' >= nextId
     /\ \A u \in users' : u.id < nextId'
     /\ \A u \in users' : (\A v \in users : v.id # u.id) => u.id >= nextId]_vars

\* the second deletion of an id that was stored before was answered
\* UserNotFound
C21_Witness ==
  \E p \in Procs :
    /\ Done(p, "deleteUser") /\ ~proc[p].faulted
    /\ proc[p].id < nextId
    /\ FindUniqueId(proc[p].id) = NoUser
    /\ proc[p].result.kind = "UserNotFound"

\* ----------------------------------------------------------------------- C22
\* process p holds the response of a handler
Responded(p) ==
  /\ proc[p].pc = "done" /\ proc[p].route # "none"
  /\ proc[p].ran = <<"handler">> /\ proc[p].op # "errorHandler"

StatusCode(p) == <<proc[p].resp.status, proc[p].resp.code>>

Answered(p) == proc[p].pc = "done" /\ proc[p].route # "none"

\* the four members every error body has, with a code and a message
ErrorEnvelope(resp) ==
  /\ ~resp.success
  /\ resp.keys = {"success", "error", "timestamp", "path"}
  /\ resp.code # "" /\ resp.message # ""
  /\ resp.status >= 400

\* the statement of C23 as written: every success response has a data field
C23_AsWritten ==
  \A p \in Procs :
    Answered(p) =>
      IF proc[p].resp.success
      THEN {"success", "data", "timestamp"} \subseteq proc[p].resp.keys
      ELSE ErrorEnvelope(proc[p].resp)

\* C23: every response of the /api/auth and /api/users endpoints is an
\* envelope.  Every success response has success true and a timestamp, and a
\* data field on every route but DELETE /users/:id, whose success response
\* carries a message and no data; every error response (of the auth
\* middleware, the validation middleware, the controllers and the global error
\* handler) has success false, error.code, error.message, a timestamp and the
\* request path.
C23_Envelopes ==
  \A p \in Procs :
    Answered(p) =>
      IF proc[p].resp.success
      THEN /\ {"success", "timestamp"} \subseteq proc[p].resp.keys
           /\ proc[p].resp.keys \subseteq {"success", "data", "message", "timestamp"}
           /\ "data" \in proc[p].resp.keys <=> proc[p].route # "DELETE /users/:id"
           /\ proc[p].route = "DELETE /users/:id" => "message" \in proc[p].resp.keys
           /\ proc[p].resp.status \in {200, 201}
      ELSE ErrorEnvelope(proc[p].resp)

\* a deletion was answered with success while the global error handler
\* answered another request
C23_Witness ==
  /\ Answered(1) /\ proc[1].route = "DELETE /users/:id" /\ proc[1].resp.success
  /\ Answered(2) /\ proc[2].op = "errorHandler" /\ ~proc[2].resp.success

\* ----------------------------------------------------------------------- C24
\* process p holds the response to an unexpected failure
UnexpectedFailure(p) ==
  Answered(p) /\ ~proc[p].resp.success /\ proc[p].resp.code = "SERVER_ERROR"

EmptyUpdate(pr) ==
  /\ pr.route = "PUT /users/:id" /\ pr.pc # "idle"
  /\ pr.auth.next /\ userIdSchema(pr.id)
  /\ pr.data = NoData

\* C25: an update request that supplies none of name, e-mail and password
\* fails validation with 400 VALIDATION_ERROR ('At least one field must be
\* provided for update'); the validation middleware does not call next, so
\* updateUser is never invoked and the store is unchanged.
C25_EmptyUpdateRejected ==
  [][\A p \in Procs :
       /\ EmptyUpdate(proc[p]) =>
            /\ proc[p].pc = "done"
            /\ proc[p].resp.status = 400 /\ proc[p].resp.code = "VALIDATION_ERROR"
            /\ proc[p].resp.detail = "At least one field must be provided for update"
            /\ proc[p].ran = <<"auth", "params", "body">>
            /\ proc[p].calls \cap (StoreCalls \cup {"hashPassword"}) = {}
            /\ proc[p].result = NoResult
       /\ (proc[p].pc = "idle" /\ EmptyUpdate(proc'[p])) =>
            /\ proc'[p].pc = "done"
            /\ users' = users]_vars

\* an authenticated update request for a stored user without any field was
\* answered 400
C25_Witness ==
  \E p \in Procs :
    /\ EmptyUpdate(proc[p]) /\ proc[p].pc = "done"
    /\ \E u \in users : u.id = proc[p].id
    /\ proc[p].resp.code = "VALIDATION_ERROR"
    /\ proc[p].resp.detail = "At least one field must be provided for update"

\* ----------------------------------------------------------------------- C26
\* slot k holds a finished call of verifyPassword
PwDone(k) == mw[k].stage = "done" /\ mw[k].kind = "verifyPassword"

\* a login with a non-empty password found a user whose stored hash is no
\* digest
MalformedLogin(p) ==
  /\ Done(p, "login") /\ ~proc[p].faulted
  /\ proc[p].data.password # ""
  /\ LoginUser(p) # NoUser /\ LoginUser(p).password = MalformedHash

\* C26: verifyPassword raises only when the plain password or the hash
\* argument is not a non-empty string; for a non-empty password it returns
\* false, without raising, both when the password does not match a
\* well-formed hash and when the hash is malformed, so a login against a user
\* whose stored hash is malformed ends in InvalidCredentials and not in
\* AuthServiceError.
C26_VerifyPassword ==
  /\ \A k \in Slots :
       PwDone(k) =>
         LET o == mw[k].out IN
         /\ ~o.ok <=> (mw[k].password = "" \/ mw[k].hash = EmptyHash)
         /\ mw[k].password = "" => o.thrown = MsgEmptyPw
         /\ (mw[k].password # "" /\ mw[k].hash = EmptyHash) => o.thrown = MsgEmptyHash
         /\ (mw[k].password # "" /\ mw[k].hash = MalformedHash) => o.ok /\ ~o.match
         /\ (mw[k].password # "" /\ mw[k].hash.alg = "bcrypt") =>
              o.ok /\ (o.match <=> mw[k].hash = BcryptHash(mw[k].password))
  /\ \A p \in Procs :
       MalformedLogin(p) =>
         /\ proc[p].result.kind = "InvalidCredentials"
         /\ "verifyPassword" \in proc[p].calls
         /\ "generateToken" \notin proc[p].calls

\* verifyPassword returned false for a malformed hash, and a login against
\* the user with that hash was answered InvalidCredentials
C26_Witness ==
  /\ \E k \in Slots :
       PwDone(k) /\ mw[k].hash = MalformedHash /\ mw[k].password # "" /\ mw[k].out.ok
  /\ \E p \in Procs : MalformedLogin(p) /\ proc[p].result.kind = "InvalidCredentials"

\* ----------------------------------------------------------------------- C27
OptDone(k) == mw[k].stage = "done" /\ mw[k].kind = "optionalAuth"

\* next was called, nothing was attached, verified or sent
Unauthenticated(out) ==
  /\ out.next /\ out.user = NoPayload
  /\ out.verified = 0 /\ out.status = 0 /\ out.code = ""

\* the statement of C27 as written: every header that is present is handled
\* as authenticateToken handles it
C27_AsWritten ==
  \A k \in Slots :
    OptDone(k) =>
      IF ~mw[k].hdr.present THEN Unauthenticated(mw[k].out)
      ELSE mw[k].out = authenticateToken(mw[k].hdr, secret, now, mw[k].fault)

\* C27: optionalAuth calls next without attaching a user and without verifying
\* anything when the request has no Authorization header or one whose value
\* is the empty string; when a non-empty header is present its outcome
\* (response status, code, attached payload, whether next is called) is
\* identical to that of authenticateToken on the same request.
C27_OptionalAuth ==
  /\ \A k \in Slots :
       OptDone(k) =>
         IF ~mw[k].hdr.present \/ mw[k].hdr.chars = <<>>
         THEN Unauthenticated(mw[k].out)
         ELSE mw[k].out = authenticateToken(mw[k].hdr, secret, now, mw[k].fault)
  /\ \A j, k \in Slots :
       /\ AuthDone(j) /\ OptDone(k)
       /\ mw[j].hdr = mw[k].hdr /\ mw[j].fault = mw[k].fault
       /\ mw[k].hdr.present /\ mw[k].hdr.chars # <<>>
       => mw[j].out = mw[k].out

\* authenticateToken and optionalAuth refused the same request with a bearer
\* token in the same way
C27_Witness ==
  /\ AuthDone(1) /\ OptDone(2)
  /\ mw[1].hdr = mw[2].hdr /\ mw[1].fault = mw[2].fault
  /\ mw[2].hdr.present /\ TwoPartsBearer(mw[2].hdr.chars) /\ Len(mw[2].hdr.chars) = 3
  /\ ~mw[2].out.next /\ mw[2].out.status = 401
  /\ mw[1].out = mw[2].out

\* ----------------------------------------------------------------------- C28
\* a step in which the register call of process p returns
RegisterReturns(p) ==
  /\ proc[p].op = "register" /\ proc[p].pc \notin {"idle", "done"}
  /\ proc'[p].pc = "done"

\* C28: register is not atomic: when user creation succeeds and token
\* issuance then fails, register raises AuthServiceError but the created user
\* stays in the store (there is no rollback), so a retry of the same
\* registration fails with UserAlreadyExists.
C28_RegisterNotAtomic ==
  [][\A p \in Procs :
       RegisterReturns(p) =>
         /\ ("generateToken" \in proc'[p].calls /\ secret = "") =>
              /\ proc'[p].result = AuthServiceError("Registration failed", MsgSecret)
              /\ \E u \in users' \ users :
                   /\ u.email = proc[p].data.email
                   /\ users' = users \cup {u}
         /\ (~proc'[p].faulted /\ \E u \in users : u.email = proc[p].data.email) =>
              /\ proc'[p].result.kind = "UserAlreadyExists"
              /\ users' = users]_vars

\* registration without a signing secret had stored its user, and the retry
\* was rejected as a duplicate
C28_Witness ==
  \E p \in Procs :
    /\ secret = "" /\ issued = {}
    /\ Done(p, "register") /\ ~proc[p].faulted
    /\ proc[p].result.kind = "UserAlreadyExists"
    /\ \E u \in users : u.email = proc[p].data.email /\ u.name = proc[p].data.name

\* ----------------------------------------------------------------------- C29
\* the storage update of process p runs after its existence check passed and
\* after the user was removed, and the storage layer answers
UpdateAfterDelete(p) ==
  /\ proc[p].op = "updateUser" /\ proc[p].pc = "up_update"
  /\ proc[p].existing # NoUser
  /\ FindUniqueId(proc[p].id) = NoUser
  /\ proc'[p].pc = "done" /\ ~proc'[p].faulted

\* C29: when updateUser and deleteUser on the same id run concurrently and
\* the delete removes the user after the update's existence check but before
\* its storage update, the update fails with UserNotFound (the storage
\* record-not-found error is remapped) and not with UserServiceError, and the
\* deleted user is not re-created.
C29_UpdateAfterDelete ==
  [][\A p \in Procs :
       UpdateAfterDelete(p) =>
         /\ proc'[p].result.kind = "UserNotFound"
         /\ "update" \in proc'[p].calls
         /\ users' = users
         /\ \A u \in users' : u.id # proc[p].id]_vars

\* an update whose existence check had passed returned UserNotFound because a
\* concurrent deletion of the same id had succeeded in between
C29_Witness ==
  /\ Done(1, "updateUser") /\ ~proc[1].faulted
  /\ proc[1].existing # NoUser /\ "update" \in proc[1].calls
  /\ proc[1].result.kind = "UserNotFound"
  /\ Succeeded(2, "deleteUser") /\ proc[2].id = proc[1].id
  /\ \A u \in users : u.id # proc[1].id

\* ----------------------------------------------------------------------- C30
\* next() was called with the decoded payload attached and nothing was sent
PassedOn(out) ==
  out.next /\ out.user # NoPayload /\ out.status = 0 /\ out.code = "" /\ out.message = ""

\* one error response was sent and next() was not called
Refused(out) ==
  /\ ~out.next /\ out.user = NoPayload
  /\ out.status \in {401, 500} /\ out.code # "" /\ out.message # ""

\* C30: for every request, authenticateToken ends in exactly one of two
\* outcomes: it calls next once with the decoded payload attached and sends
\* no response, or it sends one error response and does not call next; never
\* both, never neither, and whatever the verification throws is answered by
\* the catch block.
C30_ExactlyOneOutcome ==
  \A k \in Slots :
    AuthDone(k) => (PassedOn(mw[k].out) # Refused(mw[k].out))

\* one request passed on with its payload, and one whose verification threw
\* a value that is no Error, answered by the fallback response
C30_Witness ==
  /\ AuthDone(1) /\ PassedOn(mw[1].out)
  /\ AuthDone(2) /\ mw[2].fault = "nonError" /\ CarriesToken(2)
  /\ Refused(mw[2].out) /\ mw[2].out.status = 500
  /\ mw[2].out.message = "Internal server error during authentication"

====
